---------------------------- MODULE Spec2Model ----------------------------
(***************************************************************************)
(* Face-Makeup-Virtual-Cosmetics: the makeup compositing engine.           *)
(*                                                                         *)
(* Conventions of the model                                                *)
(*   - Fractions (opacity, intensity, strength, spread, scale ...) are     *)
(*     fixed-point numbers in hundredths: 0.5 is 50, 1.0 is Percent.       *)
(*   - A JS object is a function from its own property names to values;    *)
(*     a JS array of landmark points is described by its length and the    *)
(*     set of indices whose entry is absent (undefined / null); LmX, LmY   *)
(*     give the coordinates of the entries that are present.               *)
(*   - A canvas is the ordered log of the drawing operations made on it    *)
(*     since it was created (an offscreen canvas) or since the base image  *)
(*     was drawn on it (the destination surface).                          *)
(*   - A call that raises reports threw = TRUE to its caller.              *)
(***************************************************************************)
EXTENDS Integers, Sequences, FiniteSets, TLC

VARIABLES
    landmarks,   \* the LandmarkSet of the current frame (detector output)
    scale,       \* source-to-destination scale of the current frame
    settings,    \* settings[e]: the settings object owned by effect e
    surface,     \* destination canvas: draw log since the base image
    raised,      \* TRUE iff the last call into the engine raised an error
    applied,     \* apply() calls since the base image: effect, enabled then
    returned,    \* references handed out by getSettings(), oldest first
    heap,        \* heap[k]: the object allocated by the k-th getSettings()
    nMutations,  \* number of settings mutations performed so far
    call,        \* the last call of a region / mask function: its arguments
    ret,         \* ... and what it returned
    pixel,       \* one pixel of the destination canvas, as the canvas stores it
    sample,      \* the last operation on that pixel: its inputs, pixel before
    app,         \* the host: currentImage, faceLandmarks, canvas, detector
    sel,         \* sel[k]: where the handler of the k-th image selection is
    detector,    \* the FaceMeshDetector instance and the status line
    callers,     \* callers[c]: the init() / detect() call of caller c
    uiState      \* the category switches of the tabbed UI

frameVars == <<landmarks, scale>>

surfaceVars == <<surface, raised, applied>>

settingsVars == <<settings, nMutations>>

copyVars == <<returned, heap>>

callVars == <<call, ret>>

pixelVars == <<pixel, sample>>

hostVars == <<app, sel>>

detectorVars == <<detector, callers>>

uiVars == <<uiState>>

vars ==
    <<frameVars, surfaceVars, settingsVars, copyVars, callVars, pixelVars,
      hostVars, detectorVars, uiVars>>

(***************************************************************************)
(* Fixed-point unit and bounds of the model.                               *)
(***************************************************************************)
Percent == 100

\* settings mutations explored from the defaults
MaxMutations == 2

\* getSettings() results kept alive by the caller
MaxCopies == 2

\* apply() calls the host makes on one base image outside a full redraw
MaxDraws == 2

(***************************************************************************)
(* LandmarkSet (spec section 3; produced by the detector).                 *)
(***************************************************************************)
\* landmarks.js line 2: MediaPipe delivers 468 or 478 points
FullLength == 478

LmX(i) == 10 + ((i * 7) % 97)

LmY(i) == 20 + ((i * 13) % 89)

Undefined == [ok |-> FALSE, x |-> 0, y |-> 0]

\* landmarks[idx] of a non-null array
At(lms, idx) ==
    IF idx >= 0 /\ idx < lms.length /\ idx \notin lms.holes
    THEN [ok |-> TRUE, x |-> LmX(idx), y |-> LmY(idx)]
    ELSE Undefined

NullLandmarks == [isNull |-> TRUE, length |-> 0, holes |-> {}]

MkLandmarks(n, h) == [isNull |-> FALSE, length |-> n, holes |-> h]

LandmarkLengths == {0, 1, 3, 5, 20, 62, 200, 468, FullLength}

HoleSets == {{}, {4}, {0, 13}, {33, 246, 362}}

LandmarkSets ==
    {NullLandmarks} \cup
    UNION {{MkLandmarks(n, h) : h \in {hs \in HoleSets : \A i \in hs : i < n}}
           : n \in LandmarkLengths}

\* 0.5x, 1x, 2x
Scales == {50, 100, 200}

(***************************************************************************)
(* Landmark Region Index: facemesh/landmarks.js                            *)
(***************************************************************************)
UPPER_LIP_OUTER == <<61, 185, 40, 39, 37, 0, 267, 269, 270, 409, 291>>

UPPER_LIP_INNER == <<78, 191, 80, 81, 82, 13, 312, 311, 310, 415, 308>>

LOWER_LIP_OUTER == <<61, 146, 91, 181, 84, 17, 314, 405, 321, 375, 291>>

LOWER_LIP_INNER == <<78, 95, 88, 178, 87, 14, 317, 402, 318, 324, 308>>

UPPER_LIP ==
    <<61, 185, 40, 39, 37, 0, 267, 269, 270, 409, 291,
      308, 415, 310, 311, 312, 13, 82, 81, 80, 191, 78>>

LOWER_LIP ==
    <<61, 146, 91, 181, 84, 17, 314, 405, 321, 375, 291,
      308, 324, 318, 402, 317, 14, 87, 178, 88, 95, 78>>

LIPS_OUTER ==
    <<61, 146, 91, 181, 84, 17, 314, 405, 321, 375, 291,
      409, 270, 269, 267, 0, 37, 39, 40, 185, 61>>

LEFT_EYE ==
    <<33, 7, 163, 144, 145, 153, 154, 155, 133,
      173, 157, 158, 159, 160, 161, 246, 33>>

RIGHT_EYE ==
    <<362, 382, 381, 380, 374, 373, 390, 249, 263,
      466, 388, 387, 386, 385, 384, 398, 362>>

LEFT_EYE_UPPER == <<33, 246, 161, 160, 159, 158, 157, 173, 133>>

LEFT_EYE_LOWER == <<33, 7, 163, 144, 145, 153, 154, 155, 133>>

RIGHT_EYE_UPPER == <<362, 398, 384, 385, 386, 387, 388, 466, 263>>

RIGHT_EYE_LOWER == <<362, 382, 381, 380, 374, 373, 390, 249, 263>>

LEFT_IRIS == <<468, 469, 470, 471, 472>>

RIGHT_IRIS == <<473, 474, 475, 476, 477>>

LEFT_EYEBROW == <<70, 63, 105, 66, 107, 55, 65, 52, 53, 46>>

RIGHT_EYEBROW == <<300, 293, 334, 296, 336, 285, 295, 282, 283, 276>>

LEFT_CHEEK ==
    <<117, 118, 119, 120, 121, 128, 217,
      126, 142, 36, 205, 187, 123, 116, 117>>

RIGHT_CHEEK ==
    <<346, 347, 348, 349, 350, 357, 437,
      355, 371, 266, 425, 411, 352, 345, 346>>

NOSE_BRIDGE == <<168, 6, 197, 195, 5, 4>>

NOSE_TIP == <<1, 2, 98, 327, 326, 97>>

NOSE ==
    <<168, 6, 197, 195, 5, 4, 1, 19,
      94, 2, 164, 0, 11, 12,
      248, 281, 275, 274,
      45, 51, 3, 196, 122, 168>>

FOREHEAD ==
    <<10, 338, 297, 332, 284, 251, 389, 264, 447, 366, 401, 435, 367, 364, 394,
      395, 369, 396, 175, 171, 140, 170, 169, 135, 138, 215, 177, 137, 227, 34,
      139, 21, 54, 103, 67, 109, 10>>

JAWLINE ==
    <<10, 338, 297, 332, 284, 251, 389, 356, 454, 323, 361, 288,
      397, 365, 379, 378, 400, 377, 152, 148, 176, 149, 150, 136,
      172, 58, 132, 93, 234, 127, 162, 21, 54, 103, 67, 109, 10>>

LOWER_JAW ==
    <<397, 365, 379, 378, 400, 377, 152, 148, 176, 149, 150, 136, 172>>

REGIONS ==
    [upperLip |-> UPPER_LIP, lowerLip |-> LOWER_LIP,
     upperLipOuter |-> UPPER_LIP_OUTER, upperLipInner |-> UPPER_LIP_INNER,
     lowerLipOuter |-> LOWER_LIP_OUTER, lowerLipInner |-> LOWER_LIP_INNER,
     lipsOuter |-> LIPS_OUTER,
     leftEye |-> LEFT_EYE, rightEye |-> RIGHT_EYE,
     leftEyeUpper |-> LEFT_EYE_UPPER, leftEyeLower |-> LEFT_EYE_LOWER,
     rightEyeUpper |-> RIGHT_EYE_UPPER, rightEyeLower |-> RIGHT_EYE_LOWER,
     leftIris |-> LEFT_IRIS, rightIris |-> RIGHT_IRIS,
     leftEyebrow |-> LEFT_EYEBROW, rightEyebrow |-> RIGHT_EYEBROW,
     leftCheek |-> LEFT_CHEEK, rightCheek |-> RIGHT_CHEEK,
     nose |-> NOSE, noseBridge |-> NOSE_BRIDGE, noseTip |-> NOSE_TIP,
     forehead |-> FOREHEAD,
     jawline |-> JAWLINE, lowerJaw |-> LOWER_JAW]

\* REGIONS is a plain object literal: a property read REGIONS[name] that finds
\* no own property continues on Object.prototype, whose members are functions
\* (or, for __proto__, an object): truthy values that are not arrays.
ObjectPrototypeKeys ==
    {"constructor", "toString", "toLocaleString", "valueOf", "hasOwnProperty",
     "isPrototypeOf", "propertyIsEnumerable", "__proto__"}

\* const indices = REGIONS[regionName]
RegionLookup(regionName) ==
    IF regionName \in DOMAIN REGIONS
    THEN [kind |-> "array", seq |-> REGIONS[regionName]]
    ELSE IF regionName \in ObjectPrototypeKeys
         THEN [kind |-> "inherited", seq |-> <<>>]
         ELSE [kind |-> "undefined", seq |-> <<>>]

\* indices.filter(idx => idx < landmarks.length && landmarks[idx])
FilterIndices_NoPresenceTest(lms, indices) ==
    SelectSeq(indices, LAMBDA idx : idx < lms.length)

FilterIndices(lms, indices) ==
    SelectSeq(indices, LAMBDA idx : idx < lms.length /\ At(lms, idx).ok)

\* .map(idx => ({ x: landmarks[idx].x * scale, y: landmarks[idx].y * scale }))
MapScaled(lms, kept, sc) ==
    [k \in 1..Len(kept) |->
        [x |-> At(lms, kept[k]).x * sc, y |-> At(lms, kept[k]).y * sc]]

getRegionPath(lms, regionName, sc) ==
    LET indices == RegionLookup(regionName) IN
    IF indices.kind = "undefined"
    THEN [threw |-> FALSE, path |-> <<>>]
    ELSE IF lms.isNull \/ lms.length = 0
    THEN [threw |-> FALSE, path |-> <<>>]
    ELSE IF indices.kind # "array"
    THEN [threw |-> TRUE, path |-> <<>>]     \* indices.filter is not a function
    ELSE [threw |-> FALSE,
          path |-> MapScaled(lms, FilterIndices(lms, indices.seq), sc)]


(***************************************************************************)
(* Region Mask Builder: render/masks.js                                    *)
(***************************************************************************)
EmptyObject == <<>>

createOffscreenCanvas(width, height) ==
    [width |-> width, height |-> height, ops |-> <<>>]

FillOp(regionName, points) ==
    [op |-> "fill", region |-> regionName, n |-> Len(points), radius |-> 0]

BlurOp(featherRadius) ==
    [op |-> "blur", region |-> "", n |-> 0, radius |-> featherRadius]

\* options.featherRadius || 3 would replace an explicit 0 as well
FeatherRadiusOf_FalsyDefault(options) ==
    IF "featherRadius" \in DOMAIN options /\ options["featherRadius"] # 0
    THEN options["featherRadius"]
    ELSE 3

\* const { featherRadius = 3 } = options: the default replaces an absent
\* (undefined) property only
FeatherRadiusOf(options) ==
    IF "featherRadius" \in DOMAIN options THEN options["featherRadius"] ELSE 3

\* the temp-canvas round trip: the canvas is replaced by its blurred copy
Feather(canvas, featherRadius) ==
    IF featherRadius > 0
    THEN [canvas EXCEPT !.ops = Append(@, BlurOp(featherRadius))]
    ELSE canvas

generateRegionMask_FillsAnyPath(lms, regionName, width, height, sc, options) ==
    LET canvas == createOffscreenCanvas(width, height)
        p == getRegionPath(lms, regionName, sc)
    IN  IF p.threw
        THEN [threw |-> TRUE, canvas |-> canvas]
        ELSE [threw |-> FALSE,
              canvas |-> Feather([canvas EXCEPT
                                    !.ops = <<FillOp(regionName, p.path)>>],
                                 FeatherRadiusOf(options))]

generateRegionMask(lms, regionName, width, height, sc, options) ==
    LET featherRadius == FeatherRadiusOf(options)
        canvas == createOffscreenCanvas(width, height)
        p == getRegionPath(lms, regionName, sc)
    IN  IF p.threw
        THEN [threw |-> TRUE, canvas |-> canvas]
        ELSE IF Len(p.path) < 3
        THEN [threw |-> FALSE, canvas |-> canvas]
        ELSE [threw |-> FALSE,
              canvas |-> Feather([canvas EXCEPT
                                    !.ops = <<FillOp(regionName, p.path)>>],
                                 featherRadius)]

\* the for-loop of generateCombinedMask over regionNames[i..]
RECURSIVE FillRegions(_, _, _, _, _)
FillRegions(lms, regionNames, i, sc, acc) ==
    IF acc.threw \/ i > Len(regionNames)
    THEN acc
    ELSE LET p == getRegionPath(lms, regionNames[i], sc) IN
         IF p.threw
         THEN [acc EXCEPT !.threw = TRUE]
         ELSE IF Len(p.path) < 3
         THEN FillRegions(lms, regionNames, i + 1, sc, acc)
         ELSE FillRegions(lms, regionNames, i + 1, sc,
                  [acc EXCEPT !.canvas.ops =
                                 Append(@, FillOp(regionNames[i], p.path))])

\* one feathered mask per region, stacked: every region blurred on its own
RECURSIVE MasksOfRegions(_, _, _, _, _, _, _)
MasksOfRegions(lms, regionNames, i, width, height, sc, options) ==
    IF i > Len(regionNames)
    THEN <<>>
    ELSE generateRegionMask(lms, regionNames[i], width, height, sc,
                            options).canvas.ops
         \o MasksOfRegions(lms, regionNames, i + 1, width, height, sc, options)

generateCombinedMask_PerRegion(lms, regionNames, width, height, sc, options) ==
    LET filled == FillRegions(lms, regionNames, 1, sc,
                      [threw |-> FALSE,
                       canvas |-> createOffscreenCanvas(width, height)])
    IN  IF filled.threw
        THEN filled
        ELSE [filled EXCEPT !.canvas.ops =
                 MasksOfRegions(lms, regionNames, 1, width, height, sc,
                                options)]

generateCombinedMask(lms, regionNames, width, height, sc, options) ==
    LET featherRadius == FeatherRadiusOf(options)
        filled == FillRegions(lms, regionNames, 1, sc,
                      [threw |-> FALSE,
                       canvas |-> createOffscreenCanvas(width, height)])
    IN  IF filled.threw
        THEN filled
        ELSE [filled EXCEPT !.canvas = Feather(@, featherRadius)]

\* a mask is all-zero iff nothing was ever filled on it (a blurred empty
\* canvas is still empty)
AllZero(canvas) == \A i \in 1..Len(canvas.ops) : canvas.ops[i].op # "fill"

FilledRegions(canvas) ==
    LET fills == SelectSeq(canvas.ops, LAMBDA o : o.op = "fill")
    IN  [k \in 1..Len(fills) |-> fills[k].region]

(***************************************************************************)
(* Effect Modules: the documented defaults of each settings object.        *)
(***************************************************************************)
Effects ==
    {"contour", "highlight", "blush", "eyeshadow", "eyeliner", "lipstick",
     "skinSmoothing"}

DEFAULT_LIPSTICK ==
    [enabled |-> TRUE, color |-> "#CC3366", opacity |-> 50, intensity |-> 100,
     blendMode |-> "multiply", featherRadius |-> 2]

DEFAULT_EYELINER ==
    [enabled |-> TRUE, color |-> "#1a1a1a", thickness |-> 2, opacity |-> 85,
     style |-> "classic", smudge |-> 50]

DEFAULT_EYESHADOW ==
    [enabled |-> FALSE, color |-> "#8B4B8B", opacity |-> 35, spread |-> 100,
     intensity |-> 80, blendMode |-> "multiply", shimmer |-> FALSE]

DEFAULT_BLUSH ==
    [enabled |-> FALSE, color |-> "#E8A0A0", opacity |-> 25, intensity |-> 80,
     featherRadius |-> 15, blendMode |-> "multiply"]

DEFAULT_CONTOUR ==
    [enabled |-> FALSE, color |-> "#8B6B5B", opacity |-> 25, intensity |-> 80,
     featherRadius |-> 12, blendMode |-> "multiply"]

DEFAULT_HIGHLIGHT ==
    [enabled |-> FALSE, color |-> "#FFFFFF", opacity |-> 15, intensity |-> 60,
     featherRadius |-> 8, shimmer |-> TRUE]

DEFAULT_SKIN_SMOOTHING ==
    [enabled |-> FALSE, strength |-> 30, preserveTexture |-> 50,
     blurRadius |-> 8]

DEFAULTS ==
    [contour |-> DEFAULT_CONTOUR, highlight |-> DEFAULT_HIGHLIGHT,
     blush |-> DEFAULT_BLUSH, eyeshadow |-> DEFAULT_EYESHADOW,
     eyeliner |-> DEFAULT_EYELINER, lipstick |-> DEFAULT_LIPSTICK,
     skinSmoothing |-> DEFAULT_SKIN_SMOOTHING]

(***************************************************************************)
(* Effect Modules: drawing.  An apply function takes the destination       *)
(* surface (ctx) and returns it with the operations it drew appended.      *)
(***************************************************************************)
\* { ...target, ...source } and Object.assign(target, source)
ObjectAssign(target, source) ==
    [f \in DOMAIN target \cup DOMAIN source |->
        IF f \in DOMAIN source THEN source[f] ELSE target[f]]

\* a * b of two fractions
Mul(a, b) == (a * b) \div Percent

\* a fillStyle / strokeStyle given as a colour string
FillStyle(color) == [hex |-> color, adjusted |-> FALSE, intensity |-> 0]

\* adjustColorIntensity(hexColor, intensity): hexColor with its saturation
\* multiplied by intensity (capped at 1), through HSL and back; the result
\* is kept as the pair it was computed from
adjustColorIntensity(hexColor, intensity) ==
    [hex |-> hexColor, adjusted |-> TRUE, intensity |-> intensity]

\* the values the 2D context accepts for globalCompositeOperation
CompositeOperations ==
    {"source-over", "source-in", "source-out", "source-atop",
     "destination-over", "destination-in", "destination-out",
     "destination-atop", "lighter", "copy", "xor",
     "multiply", "screen", "overlay", "darken", "lighten", "color-dodge",
     "color-burn", "hard-light", "soft-light", "difference", "exclusion",
     "hue", "saturation", "color", "luminosity"}

\* ctx.globalCompositeOperation = value: the context ignores a value it does
\* not recognise and keeps the operation it had
SetGlobalCompositeOperation(current, value) ==
    IF value \in CompositeOperations THEN value ELSE current

\* one drawing call on the destination surface, with the context state
\* (globalAlpha, globalCompositeOperation, filter, lineWidth) it was made in;
\* every effect draws between ctx.save() and ctx.restore(), starting from
\* the context's default operation
DrawOp(effect, op, regions, excluded, n, color, alpha, blend, blur, lineWidth) ==
    [effect |-> effect, op |-> op, regions |-> regions, excluded |-> excluded,
     n |-> n, color |-> FillStyle(color), alpha |-> alpha,
     blend |-> SetGlobalCompositeOperation("source-over", blend),
     blur |-> blur, lineWidth |-> lineWidth]

Returned(ctx) == [threw |-> FALSE, surface |-> ctx]

Thrown(ctx) == [threw |-> TRUE, surface |-> ctx]

\* getPoints of the contour module, getHighlightPoints of the highlight module
getPoints(lms, indices, sc) == MapScaled(lms, FilterIndices(lms, indices), sc)

(* ---- lipstick ---- *)
applyLipstick_IgnoresEnabled(ctx, lms, width, height, sc, effectSettings) ==
    LET config == ObjectAssign(DEFAULT_LIPSTICK, effectSettings) IN
    IF lms.isNull \/ lms.length = 0
    THEN Returned(ctx)
    ELSE LET mask == generateCombinedMask(lms, <<"upperLip", "lowerLip">>,
                         width, height, sc,
                         "featherRadius" :> config.featherRadius)
         IN  IF mask.threw
             THEN Thrown(ctx)
             ELSE Returned(Append(ctx,
                      [DrawOp("lipstick", "drawImage",
                              FilledRegions(mask.canvas), <<>>,
                              Len(FilledRegions(mask.canvas)), config.color,
                              config.opacity, config.blendMode, 0, 0)
                         EXCEPT !.color =
                            adjustColorIntensity(config.color,
                                                 config.intensity)]))

applyLipstick(ctx, lms, width, height, sc, effectSettings) ==
    LET config == ObjectAssign(DEFAULT_LIPSTICK, effectSettings) IN
    IF ~config.enabled \/ lms.isNull \/ lms.length = 0
    THEN Returned(ctx)
    ELSE LET mask == generateCombinedMask(lms, <<"upperLip", "lowerLip">>,
                         width, height, sc,
                         "featherRadius" :> config.featherRadius)
         IN  IF mask.threw
             THEN Thrown(ctx)
             ELSE Returned(Append(ctx,
                      [DrawOp("lipstick", "drawImage",
                              FilledRegions(mask.canvas), <<>>,
                              Len(FilledRegions(mask.canvas)), config.color,
                              config.opacity, config.blendMode, 0, 0)
                         EXCEPT !.color =
                            adjustColorIntensity(config.color,
                                                 config.intensity)]))

(* ---- blush ---- *)
applyBlush(ctx, lms, width, height, sc, effectSettings) ==
    LET config == ObjectAssign(DEFAULT_BLUSH, effectSettings) IN
    IF ~config.enabled \/ lms.isNull \/ lms.length = 0
    THEN Returned(ctx)
    ELSE LET mask == generateCombinedMask(lms, <<"leftCheek", "rightCheek">>,
                         width, height, sc,
                         "featherRadius" :> config.featherRadius)
         IN  IF mask.threw
             THEN Thrown(ctx)
             ELSE Returned(Append(ctx,
                      DrawOp("blush", "drawImage",
                             FilledRegions(mask.canvas), <<>>,
                             Len(FilledRegions(mask.canvas)), config.color,
                             Mul(config.opacity, config.intensity),
                             config.blendMode, 0, 0)))

(* ---- contour ---- *)
LEFT_CHEEK_HOLLOW == <<234, 227, 137, 177, 215, 138, 135, 169, 170, 140>>

RIGHT_CHEEK_HOLLOW == <<454, 447, 366, 401, 435, 367, 364, 394, 395, 369>>

LEFT_TEMPLE == <<54, 103, 67, 109, 10>>

RIGHT_TEMPLE == <<284, 332, 297, 338, 10>>

LEFT_NOSE_SIDE == <<236, 198, 131, 49, 129>>

RIGHT_NOSE_SIDE == <<456, 420, 360, 279, 358>>

drawContourShadow(ctx, area, points, color, opacity, featherRadius) ==
    IF Len(points) < 3
    THEN ctx
    ELSE Append(ctx, DrawOp("contour", "fill", <<area>>, <<>>, Len(points),
                            color, opacity, "multiply", featherRadius, 0))

drawNoseContour(ctx, leftPoints, rightPoints, color, opacity, featherRadius) ==
    IF Len(leftPoints) < 2 \/ Len(rightPoints) < 2
    THEN ctx
    ELSE ctx \o
         <<DrawOp("contour", "stroke", <<"leftNoseSide">>, <<>>,
                  Len(leftPoints), color, Mul(opacity, 60), "multiply",
                  featherRadius \div 2, 4 * Percent),
           DrawOp("contour", "stroke", <<"rightNoseSide">>, <<>>,
                  Len(rightPoints), color, Mul(opacity, 60), "multiply",
                  featherRadius \div 2, 4 * Percent)>>

applyContour(ctx, lms, width, height, sc, effectSettings) ==
    LET config == ObjectAssign(DEFAULT_CONTOUR, effectSettings) IN
    IF ~config.enabled \/ lms.isNull \/ lms.length = 0
    THEN Returned(ctx)
    ELSE LET opacity == Mul(config.opacity, config.intensity)
             c1 == drawContourShadow(ctx, "leftCheekHollow",
                       getPoints(lms, LEFT_CHEEK_HOLLOW, sc), config.color,
                       opacity, config.featherRadius)
             c2 == drawContourShadow(c1, "rightCheekHollow",
                       getPoints(lms, RIGHT_CHEEK_HOLLOW, sc), config.color,
                       opacity, config.featherRadius)
             c3 == drawContourShadow(c2, "leftTemple",
                       getPoints(lms, LEFT_TEMPLE, sc), config.color,
                       Mul(opacity, 50), config.featherRadius)
             c4 == drawContourShadow(c3, "rightTemple",
                       getPoints(lms, RIGHT_TEMPLE, sc), config.color,
                       Mul(opacity, 50), config.featherRadius)
         IN  Returned(drawNoseContour(c4,
                          getPoints(lms, LEFT_NOSE_SIDE, sc),
                          getPoints(lms, RIGHT_NOSE_SIDE, sc), config.color,
                          opacity, config.featherRadius))

(* ---- highlight ---- *)
LEFT_CHEEKBONE == <<117, 118, 119, 47, 126>>

RIGHT_CHEEKBONE == <<346, 347, 348, 277, 355>>

NOSE_HIGHLIGHT == <<168, 6, 197, 195, 5>>

drawHighlight(ctx, area, points, color, opacity, featherRadius, shimmer) ==
    IF Len(points) < 2
    THEN ctx
    ELSE LET glow == Append(ctx,
                        DrawOp("highlight", "fill", <<area>>, <<>>,
                               Len(points), color, opacity, "overlay",
                               featherRadius, 0))
         IN  IF shimmer
             THEN Append(glow,
                      DrawOp("highlight", "fill", <<area>>, <<>>, Len(points),
                             "rgba(255,255,255,0.4)", Mul(opacity, 50),
                             "screen", featherRadius, 0))
             ELSE glow

applyHighlight(ctx, lms, width, height, sc, effectSettings) ==
    LET config == ObjectAssign(DEFAULT_HIGHLIGHT, effectSettings) IN
    IF ~config.enabled \/ lms.isNull \/ lms.length = 0
    THEN Returned(ctx)
    ELSE LET opacity == Mul(config.opacity, config.intensity)
             h1 == drawHighlight(ctx, "leftCheekbone",
                       getPoints(lms, LEFT_CHEEKBONE, sc), config.color,
                       opacity, config.featherRadius, config.shimmer)
             h2 == drawHighlight(h1, "rightCheekbone",
                       getPoints(lms, RIGHT_CHEEKBONE, sc), config.color,
                       opacity, config.featherRadius, config.shimmer)
         IN  Returned(drawHighlight(h2, "noseBridge",
                          getPoints(lms, NOSE_HIGHLIGHT, sc), config.color,
                          Mul(opacity, 70), config.featherRadius,
                          config.shimmer))

(* ---- eyeshadow ---- *)
drawEyeshadow(ctx, lms, eyeUpperRegion, eyebrowRegion, sc, config) ==
    LET eyePoints == getRegionPath(lms, eyeUpperRegion, sc)
        browPoints == getRegionPath(lms, eyebrowRegion, sc)
    IN  IF eyePoints.threw \/ browPoints.threw
        THEN Thrown(ctx)
        ELSE IF Len(eyePoints.path) < 3 \/ Len(browPoints.path) < 3
        THEN Returned(ctx)
        ELSE LET shadow == Append(ctx,
                     DrawOp("eyeshadow", "fill", <<eyeUpperRegion>>, <<>>,
                            Len(eyePoints.path), config.color,
                            Mul(config.opacity, config.intensity),
                            config.blendMode, 0, 0))
             IN  IF config.shimmer
                 THEN Returned(Append(shadow,
                          DrawOp("eyeshadow", "fill", <<eyeUpperRegion>>,
                                 <<>>, Len(eyePoints.path),
                                 "rgba(255, 255, 255, 0.4)",
                                 Mul(config.opacity, 30), "overlay", 0, 0)))
                 ELSE Returned(shadow)

applyEyeshadow(ctx, lms, width, height, sc, effectSettings) ==
    LET config == ObjectAssign(DEFAULT_EYESHADOW, effectSettings) IN
    IF ~config.enabled \/ lms.isNull \/ lms.length = 0
    THEN Returned(ctx)
    ELSE LET left == drawEyeshadow(ctx, lms, "leftEyeUpper", "leftEyebrow",
                                   sc, config)
         IN  IF left.threw
             THEN left
             ELSE drawEyeshadow(left.surface, lms, "rightEyeUpper",
                                "rightEyebrow", sc, config)

(* ---- eyeliner ---- *)
\* thickness after the per-style multiplier, in hundredths of a pixel
StyledThickness(config) ==
    IF config.style = "thin" THEN config.thickness * 60
    ELSE IF config.style = "thick" THEN config.thickness * 180
    ELSE config.thickness * Percent

\* coordinates are in hundredths of a pixel
Point(x, y) == [x |-> x * Percent, y |-> y * Percent]

Distance(a, b) == IF a >= b THEN a - b ELSE b - a

ReversePoints(points) ==
    [i \in 1..Len(points) |-> points[Len(points) + 1 - i]]

MoveTo(p) == [op |-> "moveTo", x |-> p.x, y |-> p.y, cpx |-> 0, cpy |-> 0]

LineTo(p) == [op |-> "lineTo", x |-> p.x, y |-> p.y, cpx |-> 0, cpy |-> 0]

\* quadraticCurveTo(cp.x, cp.y, xc, yc), (xc, yc) halfway from cp to next
QuadraticCurveTo(cp, next) ==
    [op |-> "quadraticCurveTo", x |-> (cp.x + next.x) \div 2,
     y |-> (cp.y + next.y) \div 2, cpx |-> cp.x, cpy |-> cp.y]

\* outerIdx: 1-based position of the outer corner in points
OuterIdx(points, faceCenter) ==
    LET distFirst == Distance(points[1].x, faceCenter.x)
        distLast == Distance(points[Len(points)].x, faceCenter.x)
    IN  IF distFirst > distLast THEN 1 ELSE Len(points)

InnerIdx(points, faceCenter) ==
    IF OuterIdx(points, faceCenter) = 1 THEN Len(points) ELSE 1

DrawOrder(points, faceCenter) ==
    IF InnerIdx(points, faceCenter) = 1 THEN points ELSE ReversePoints(points)

\* the wing would lean towards the nose
WingSegment_TowardCenter(outerCorner, faceCenter, thickness) ==
    LET wingLength == thickness * 4
        outwardX == IF outerCorner.x > faceCenter.x THEN -1 ELSE 1
    IN  LineTo([x |-> outerCorner.x + outwardX * ((wingLength * 8) \div 10),
                y |-> outerCorner.y - (wingLength * 6) \div 10])

\* lineTo(wingX, wingY); thickness is the styled thickness
WingSegment(outerCorner, faceCenter, thickness) ==
    LET wingLength == thickness * 4
        outwardX == IF outerCorner.x > faceCenter.x THEN 1 ELSE -1
    IN  LineTo([x |-> outerCorner.x + outwardX * ((wingLength * 8) \div 10),
                y |-> outerCorner.y - (wingLength * 6) \div 10])

\* the path commands between ctx.beginPath() and ctx.stroke(), for the
\* points that getRegionPath returned; nothing is drawn for fewer than 3
EyelinerPath(points, faceCenter, config) ==
    IF Len(points) < 3
    THEN <<>>
    ELSE LET outerCorner == points[OuterIdx(points, faceCenter)]
             innerCorner == points[InnerIdx(points, faceCenter)]
             drawOrder == DrawOrder(points, faceCenter)
         IN  <<MoveTo(innerCorner)>>
             \o [i \in 1..(Len(drawOrder) - 2) |->
                    QuadraticCurveTo(drawOrder[i + 1], drawOrder[i + 2])]
             \o <<LineTo(outerCorner)>>
             \o (IF config.style = "winged"
                 THEN <<WingSegment(outerCorner, faceCenter,
                                    StyledThickness(config))>>
                 ELSE <<>>)

drawEyelinerLine(ctx, lms, eyeRegion, sc, config, faceCenter) ==
    LET points == getRegionPath(lms, eyeRegion, sc) IN
    IF points.threw
    THEN Thrown(ctx)
    ELSE IF Len(points.path) < 3
    THEN Returned(ctx)
    ELSE Returned(Append(ctx,
             DrawOp("eyeliner", "stroke", <<eyeRegion>>, <<>>,
                    Len(points.path), config.color, config.opacity,
                    "source-over",
                    IF config.smudge > 0 THEN config.smudge * 3 ELSE 0,
                    StyledThickness(config))))

\* reads landmarks[4] whether or not the array has it
applyEyeliner(ctx, lms, width, height, sc, effectSettings) ==
    LET config == ObjectAssign(DEFAULT_EYELINER, effectSettings) IN
    IF ~config.enabled \/ lms.isNull \/ lms.length = 0
    THEN Returned(ctx)
    ELSE LET noseTip == At(lms, 4) IN
         IF ~noseTip.ok
         THEN Thrown(ctx)        \* noseTip.x of undefined
         ELSE LET faceCenter == [x |-> noseTip.x * sc, y |-> noseTip.y * sc]
                  left == drawEyelinerLine(ctx, lms, "leftEyeUpper", sc,
                                           config, faceCenter)
              IN  IF left.threw
                  THEN left
                  ELSE drawEyelinerLine(left.surface, lms, "rightEyeUpper",
                                        sc, config, faceCenter)

(* ---- skin smoothing ---- *)
SKIN_REGIONS == <<"leftCheek", "rightCheek", "forehead", "nose">>

EXCLUDE_REGIONS == <<"leftEye", "rightEye", "upperLip", "lowerLip">>

\* the regions of the list whose mask has coverage; a mask that cannot be
\* generated is skipped (try / catch)
CoveredRegions(lms, regionNames, width, height, sc, featherRadius) ==
    SelectSeq(regionNames,
        LAMBDA regionName :
            LET mask == generateRegionMask(lms, regionName, width, height, sc,
                                           "featherRadius" :> featherRadius)
            IN  ~mask.threw /\ ~AllZero(mask.canvas))

createSkinMask(lms, width, height, sc, config) ==
    [skin |-> CoveredRegions(lms, SKIN_REGIONS, width, height, sc, 10),
     excluded |-> CoveredRegions(lms, EXCLUDE_REGIONS, width, height, sc, 5),
     blur |-> config.blurRadius \div 2]

applySkinSmoothing(ctx, originalImage, lms, width, height, sc, effectSettings) ==
    LET config == ObjectAssign(DEFAULT_SKIN_SMOOTHING, effectSettings) IN
    IF ~config.enabled \/ lms.isNull \/ lms.length = 0 \/ ~originalImage
    THEN Returned(ctx)
    ELSE LET skinMask == createSkinMask(lms, width, height, sc, config) IN
         Returned(Append(ctx,
             DrawOp("skinSmoothing", "drawImage", skinMask.skin,
                    skinMask.excluded, Len(skinMask.skin), "",
                    config.strength, "source-over", config.blurRadius, 0)))

(* ---- apply() of the effect object named effect ---- *)
EffectApply(effect, ctx, originalImage, lms, width, height, sc) ==
    CASE effect = "contour" ->
            applyContour(ctx, lms, width, height, sc, settings[effect])
      [] effect = "highlight" ->
            applyHighlight(ctx, lms, width, height, sc, settings[effect])
      [] effect = "blush" ->
            applyBlush(ctx, lms, width, height, sc, settings[effect])
      [] effect = "eyeshadow" ->
            applyEyeshadow(ctx, lms, width, height, sc, settings[effect])
      [] effect = "eyeliner" ->
            applyEyeliner(ctx, lms, width, height, sc, settings[effect])
      [] effect = "lipstick" ->
            applyLipstick(ctx, lms, width, height, sc, settings[effect])
      [] effect = "skinSmoothing" ->
            applySkinSmoothing(ctx, originalImage, lms, width, height, sc,
                               settings[effect])

(***************************************************************************)
(* One pixel of a canvas.  A canvas keeps its pixels with the colour       *)
(* channels premultiplied by alpha, 8 bits per channel; getImageData()     *)
(* hands out the un-premultiplied values and putImageData() stores them    *)
(* premultiplied again.                                                    *)
(***************************************************************************)
Channels == {"r", "g", "b"}

Rgba(r, g, b, a) == [r |-> r, g |-> g, b |-> b, a |-> a]

TransparentPixel == Rgba(0, 0, 0, 0)

\* Math.round(n / d) for d > 0
RoundDiv(n, d) == (2 * n + d) \div (2 * d)

\* a Uint8ClampedArray element
ClampByte(v) == IF v < 0 THEN 0 ELSE IF v > 255 THEN 255 ELSE v

\* ctx.getImageData(): stored pixel -> ImageData values
getImageData(stored) ==
    IF stored.a = 0
    THEN TransparentPixel
    ELSE [ch \in DOMAIN stored |->
             IF ch = "a"
             THEN stored.a
             ELSE ClampByte(RoundDiv(stored[ch] * 255, stored.a))]

\* ctx.putImageData(): ImageData values -> stored pixel
putImageData(data) ==
    [ch \in DOMAIN data |->
        IF ch = "a" THEN data.a ELSE RoundDiv(data[ch] * data.a, 255)]

\* the compositing of one source pixel onto one destination pixel, both
\* premultiplied, under globalCompositeOperation = operation
Composite(operation, src, dst) ==
    LET over(ch) == src[ch] + RoundDiv(dst[ch] * (255 - src.a), 255)
        alphaOver == src.a + RoundDiv(dst.a * (255 - src.a), 255)
    IN  CASE operation = "source-over" ->
                [ch \in DOMAIN dst |-> over(ch)]
          [] operation = "multiply" ->
                [ch \in DOMAIN dst |->
                    IF ch = "a"
                    THEN alphaOver
                    ELSE RoundDiv(src[ch] * (255 - dst.a)
                                  + src[ch] * dst[ch]
                                  + dst[ch] * (255 - src.a), 255)]
          [] operation = "screen" ->
                [ch \in DOMAIN dst |->
                    IF ch = "a"
                    THEN alphaOver
                    ELSE src[ch] + dst[ch]
                         - RoundDiv(src[ch] * dst[ch], 255)]
          [] operation = "destination-in" ->
                [ch \in DOMAIN dst |-> RoundDiv(dst[ch] * src.a, 255)]
          [] operation = "destination-out" ->
                [ch \in DOMAIN dst |-> RoundDiv(dst[ch] * (255 - src.a), 255)]
          [] operation = "copy" -> src

\* ctx.globalAlpha = value: a value outside 0..1 is ignored
SetGlobalAlpha(current, value) ==
    IF value >= 0 /\ value <= Percent THEN value ELSE current

\* ctx.drawImage(image, 0, 0) at this pixel, in the context state given
drawImage(dst, src, globalAlpha, operation) ==
    Composite(operation,
              [ch \in DOMAIN src |-> RoundDiv(src[ch] * globalAlpha, Percent)],
              dst)

\* '#RRGGBB' as channel values
HexToRgb(color) ==
    CASE color = "#CC3366" -> Rgba(204, 51, 102, 255)
      [] color = "#E8A0A0" -> Rgba(232, 160, 160, 255)
      [] color = "#FFFFFF" -> Rgba(255, 255, 255, 255)
      [] color = "#000000" -> Rgba(0, 0, 0, 255)

\* ctx.fillStyle = color; ctx.fillRect(0, 0, width, height) on a new canvas
fillRect(color) == HexToRgb(color)

\* a mask pixel: white, with the coverage of the region at that pixel (after
\* feathering) as alpha
MaskPixel(coverage) == Rgba(coverage, coverage, coverage, coverage)

(* ---- mask-based compositing at one pixel ---- *)
\* colorCtx.fillRect(...); colorCtx.globalCompositeOperation =
\* 'destination-in'; colorCtx.drawImage(maskCanvas, 0, 0)
ColorLayer(color, coverage) ==
    drawImage(fillRect(color), MaskPixel(coverage), Percent, "destination-in")

\* applyColorWithMask(destCtx, maskCanvas, color, opacity, blendMode); the
\* same statements end applyLipstick and applyBlush
applyColorWithMask(dst, coverage, color, opacity, blendMode) ==
    drawImage(dst, ColorLayer(color, coverage),
              SetGlobalAlpha(Percent, opacity),
              SetGlobalCompositeOperation("source-over", blendMode))

(* ---- skin smoothing at one pixel ---- *)
\* the blend loop with the two weights of the final mix exchanged
BlendPixel_WeightsSwapped(orig, smooth, maskRed, strength, texturePreserve) ==
    IF maskRed > 0
    THEN [ch \in DOMAIN orig |->
             IF ch = "a"
             THEN orig.a
             ELSE ClampByte(RoundDiv(
                      orig[ch] * maskRed * strength * Percent
                      + (smooth[ch] * Percent
                         + (orig[ch] - smooth[ch]) * texturePreserve)
                        * (255 * Percent - maskRed * strength),
                      255 * Percent * Percent))]
    ELSE orig

\* the blend loop on one pixel: orig, smooth are ImageData values, maskRed
\* is the red channel of the mask's ImageData;
\*   blendAmount = (maskRed / 255) * strength
\*   blended     = smooth + (orig - smooth) * texturePreserve
\*   result      = Math.round(orig * (1 - blendAmount) + blended * blendAmount)
BlendPixel(orig, smooth, maskRed, strength, texturePreserve) ==
    IF maskRed > 0
    THEN [ch \in DOMAIN orig |->
             IF ch = "a"
             THEN orig.a
             ELSE ClampByte(RoundDiv(
                      orig[ch] * (255 * Percent - maskRed * strength) * Percent
                      + (smooth[ch] * Percent
                         + (orig[ch] - smooth[ch]) * texturePreserve)
                        * maskRed * strength,
                      255 * Percent * Percent))]
    ELSE orig

\* originalData after the blend loop: dst is the canvas pixel, smoothed the
\* pixel of the blurred copy, coverage the skin mask's alpha there
BlendedData(dst, smoothed, coverage, config) ==
    LET processed == drawImage(TransparentPixel, dst, Percent, "source-over")
        originalData == getImageData(processed)
        smoothData == getImageData(smoothed)
        maskData == getImageData(MaskPixel(coverage))
    IN  BlendPixel(originalData, smoothData, maskData.r, config.strength,
                   config.preserveTexture)

\* applySkinSmoothing seen at one pixel of the canvas: the blended data is
\* put on the process canvas, which is then drawn over the main canvas
applySkinSmoothingAt(dst, smoothed, coverage, image, lms, effectSettings) ==
    LET config == ObjectAssign(DEFAULT_SKIN_SMOOTHING, effectSettings) IN
    IF ~config.enabled \/ lms.isNull \/ lms.length = 0 \/ ~image
    THEN dst
    ELSE drawImage(dst,
                   putImageData(BlendedData(dst, smoothed, coverage, config)),
                   Percent, "source-over")

(***************************************************************************)
(* The pixel under observation, through one pass of an effect.             *)
(***************************************************************************)
\* effect passes explored on one base pixel
MaxPixelOps == 1

NoPixel == TransparentPixel

NoSample ==
    [fn |-> "none", before |-> TransparentPixel, coverage |-> 0,
     smoothed |-> TransparentPixel, data |-> TransparentPixel,
     config |-> EmptyObject, color |-> "", opacity |-> 0, blendMode |-> "",
     count |-> 0]

\* pixels of a drawn image: opaque (a photograph), partly transparent and
\* fully transparent (an image with an alpha channel)
PixelInputs ==
    {Rgba(200, 150, 120, 255), Rgba(30, 60, 90, 255),
     Rgba(100, 75, 60, 128), TransparentPixel}

\* pixels of the blurred copy
SmoothedInputs == {Rgba(180, 140, 130, 255), Rgba(90, 70, 66, 128)}

\* coverage of a mask at the pixel: outside, on the feathered edge, inside
CoverageInputs == {0, 64, 255}

SkinSmoothingInputs ==
    {[enabled |-> TRUE, strength |-> s, preserveTexture |-> t,
      blurRadius |-> 8] : s \in {0, 30, Percent}, t \in {0, 50, Percent}}
    \cup {[enabled |-> FALSE, strength |-> 30, preserveTexture |-> 50,
           blurRadius |-> 8]}

PixelBlendModes ==
    {"multiply", "screen", "source-over", "copy", "destination-in", "glossy"}

(***************************************************************************)
(* The host application (main.js): image selections.  Each selection runs  *)
(* the async handler handleImageSelect; a handler is suspended at an await *)
(* until the event it waits for arrives, and other handlers run meanwhile. *)
(***************************************************************************)
\* image selections the user makes in one session
MaxSelections == 3

Selections == 1..MaxSelections

\* selection k picks image k; 0 stands for null / nothing drawn
NoApp ==
    [currentImage |-> 0, faceLandmarks |-> 0,
     canvas |-> [image |-> 0, dots |-> 0, error |-> FALSE],
     detector |-> "initializing"]

NoSelections == [k \in Selections |-> "idle"]

InProgress(pc) == pc \in {"loading", "awaitInit"}

\* renderImage(): the canvas is resized (cleared) and the image drawn
renderImage(a) ==
    [a EXCEPT !.canvas = [image |-> a.currentImage, dots |-> 0,
                          error |-> FALSE]]

\* drawLandmarks(): dots at this.faceLandmarks over the canvas as it is
drawLandmarks(a) ==
    IF a.faceLandmarks = 0 THEN a ELSE [a EXCEPT !.canvas.dots = a.faceLandmarks]

\* what detector.detect(image) does: it returns the landmarks of the face
\* found, returns null when no face is found, or throws
DetectResults == {"face", "none", "throws"}

\* detectFace() from the point where detector.detect(image) has completed
\* on the image that was passed; an error is caught and logged
detectFace(a, image, result) ==
    CASE result = "face" -> drawLandmarks([a EXCEPT !.faceLandmarks = image])
      [] result = "none" -> [a EXCEPT !.faceLandmarks = 0]
      [] result = "throws" -> a

\* initializeCanvas(): the canvas is resized and the placeholder drawn
initializeCanvas(a) ==
    [a EXCEPT !.canvas = [image |-> 0, dots |-> 0, error |-> FALSE]]

\* handleResize()
handleResize(a) ==
    IF a.currentImage # 0
    THEN drawLandmarks(renderImage(a))
    ELSE initializeCanvas(a)

\* showError(): the whole canvas is filled and the message painted on it
showError(a) ==
    [a EXCEPT !.canvas = [image |-> 0, dots |-> 0, error |-> TRUE]]

(***************************************************************************)
(* The FaceMeshDetector (facemesh/index.js).  faceLandmarker is 0 for null *)
(* and otherwise the number of the FaceLandmarker created; created counts  *)
(* the FaceLandmarkers created so far.  A caller is one call of init() or  *)
(* detect(); caller 1 is the pre-initialization in FaceMakeupApp.init().   *)
(***************************************************************************)
\* concurrent calls on the one detector instance
MaxCallers == 3

Callers == 1..MaxCallers

CallKinds == {"appInit", "init", "detect"}

NoDetector ==
    [faceLandmarker |-> 0, isInitialized |-> FALSE, isInitializing |-> FALSE,
     created |-> 0, status |-> "Loading face detection model..."]

NoCallers == [c \in Callers |-> [kind |-> "init", pc |-> "idle"]]

\* a call that is inside init(): waiting on the other caller's attempt,
\* loading the vision module, or creating the FaceLandmarker
InInit(pc) == pc \in {"polling", "loadingModule", "creating"}

\* how a call has ended
Completed(pc) == pc \in {"returned", "threw", "detected", "nullDetect"}

\* the first lines of init() without the test of isInitializing
InitEntry_NoInitializingTest(d) ==
    IF d.isInitialized THEN "return" ELSE "start"

\* the first lines of init(): return at once, wait for the attempt that is
\* in progress, or start an attempt
InitEntry(d) ==
    IF d.isInitialized THEN "return"
    ELSE IF d.isInitializing THEN "wait"
    ELSE "start"

\* what the caller does once init() has returned normally: init() callers
\* are done, detect() goes on to this.faceLandmarker.detect(imageElement),
\* a TypeError when faceLandmarker is null
AfterInit(d, kind) ==
    IF kind = "detect"
    THEN IF d.faceLandmarker = 0 THEN "nullDetect" ELSE "detected"
    ELSE "returned"

\* FaceMakeupApp.init() without its try / catch: an error of detector.init()
\* ends init() before any status is shown
StatusAfter_Uncaught(d, kind, threw) ==
    IF kind = "appInit" /\ ~threw THEN "Ready - upload an image" ELSE d.status

\* FaceMakeupApp.init(): the status line after detector.init() has returned
\* or thrown (the error is caught)
StatusAfter(d, kind, threw) ==
    IF kind # "appInit" THEN d.status
    ELSE IF threw THEN "Model loading failed - will retry on image upload"
    ELSE "Ready - upload an image"

\* the catch / finally of init() would leave the flag set on failure
InitFailed_FlagLeftSet(d) == d

\* the finally block of init() after an error: the error is rethrown
InitFailed(d) == [d EXCEPT !.isInitializing = FALSE]

\* createFromOptions has resolved: the rest of the try block, then finally
InitSucceeded(d) ==
    [d EXCEPT !.faceLandmarker = d.created + 1, !.created = d.created + 1,
              !.isInitialized = TRUE, !.isInitializing = FALSE]

\* dispose()
dispose(d) == [d EXCEPT !.faceLandmarker = 0, !.isInitialized = FALSE]

\* the category toggles (master switches) of uiState
UiStateDefaults ==
    [lipsEnabled |-> TRUE, eyesEnabled |-> TRUE, faceEnabled |-> FALSE]

(***************************************************************************)
(* The debug overlay (render/index.js).  The context is its globalAlpha,   *)
(* in hundredths, and the list of the drawing calls made on it.            *)
(***************************************************************************)
LIPS_INNER ==
    <<78, 95, 88, 178, 87, 14, 317, 402, 318, 324, 308,
      415, 310, 311, 312, 13, 82, 81, 80, 191, 78>>

FACE_OVAL ==
    <<10, 338, 297, 332, 284, 251, 389, 356, 454, 323, 361, 288,
      397, 365, 379, 378, 400, 377, 152, 148, 176, 149, 150, 136,
      172, 58, 132, 93, 234, 127, 162, 21, 54, 103, 67, 109, 10>>

DefaultContext == [globalAlpha |-> Percent, ops |-> <<>>]

\* the contours of drawDebugLandmarks with their line widths, in order
DebugContours ==
    <<[name |-> "faceOval", indices |-> FACE_OVAL, lineWidth |-> 100],
      [name |-> "leftEye", indices |-> LEFT_EYE, lineWidth |-> 150],
      [name |-> "rightEye", indices |-> RIGHT_EYE, lineWidth |-> 150],
      [name |-> "lipsOuter", indices |-> LIPS_OUTER, lineWidth |-> 150],
      [name |-> "lipsInner", indices |-> LIPS_INNER, lineWidth |-> 100]>>

drawContour(ctx, lms, name, indices, lineWidth) ==
    IF Len(indices) < 2
    THEN ctx
    ELSE LET dimmed == [ctx EXCEPT !.globalAlpha = 60] IN
         IF ~At(lms, indices[1]).ok
         THEN dimmed                      \* if (!first) return
         ELSE [globalAlpha |-> Percent,
               ops |-> Append(dimmed.ops,
                          [op |-> "stroke", region |-> name,
                           n |-> Len(FilterIndices(lms, indices)),
                           alpha |-> dimmed.globalAlpha,
                           lineWidth |-> lineWidth])]

\* the five drawContour calls from the i-th on
RECURSIVE drawContours(_, _, _)
drawContours(ctx, lms, i) ==
    IF i > Len(DebugContours)
    THEN ctx
    ELSE drawContours(drawContour(ctx, lms, DebugContours[i].name,
                                  DebugContours[i].indices,
                                  DebugContours[i].lineWidth),
                      lms, i + 1)

\* sparse: the absent points are holes of the array, which forEach skips;
\* otherwise they are undefined or null elements and point.x raises
drawDebugLandmarks(ctx, lms, debug, sparse) ==
    IF ~debug \/ lms.isNull \/ lms.length = 0
    THEN [threw |-> FALSE, ctx |-> ctx]
    ELSE IF lms.holes # {} /\ ~sparse
    THEN [threw |-> TRUE, ctx |-> ctx]
    ELSE [threw |-> FALSE,
          ctx |-> drawContours(
                     [ctx EXCEPT !.ops =
                         Append(@, [op |-> "dots", region |-> "",
                                    n |-> lms.length
                                            - Cardinality(lms.holes),
                                    alpha |-> ctx.globalAlpha,
                                    lineWidth |-> 0])],
                     lms, 1)]

(***************************************************************************)
(* Calls of the region and mask functions on the current frame.            *)
(***************************************************************************)
NoCanvas == createOffscreenCanvas(0, 0)

\* landmarks: the array as it was when it was passed in
NoCall ==
    [fn |-> "none", landmarks |-> NullLandmarks, regionNames |-> <<>>,
     width |-> 0, height |-> 0, options |-> EmptyObject]

NoRet == [threw |-> FALSE, path |-> <<>>, canvas |-> NoCanvas]

UnknownRegionNames == {"chin", "", "LEFT_EYE", "toString", "__proto__"}

RegionNameInputs == DOMAIN REGIONS \cup UnknownRegionNames

RegionListInputs ==
    {<<>>, <<"upperLip", "lowerLip">>, <<"leftCheek", "rightCheek">>,
     <<"leftIris", "upperLip">>, <<"nose", "rightIris", "leftEye">>,
     <<"leftEye", "chin", "forehead">>, <<"lowerLip", "toString">>}

OptionInputs ==
    {EmptyObject, "featherRadius" :> 0, "featherRadius" :> 5}

SizeInputs == {[width |-> 4, height |-> 3], [width |-> 640, height |-> 480]}

CallGetRegionPath(regionName) ==
    LET r == getRegionPath(landmarks, regionName, scale) IN
    /\ call.fn = "none"
    /\ call' = [NoCall EXCEPT !.fn = "getRegionPath",
                              !.landmarks = landmarks,
                              !.regionNames = <<regionName>>]
    /\ ret' = [NoRet EXCEPT !.threw = r.threw, !.path = r.path]
    /\ UNCHANGED <<uiVars, detectorVars, hostVars, pixelVars, frameVars, surfaceVars, settingsVars,
                   copyVars>>

CallGenerateRegionMask(regionName, size, options) ==
    LET r == generateRegionMask(landmarks, regionName, size.width, size.height,
                                scale, options) IN
    /\ call.fn = "none"
    /\ call' = [fn |-> "generateRegionMask", landmarks |-> landmarks,
                regionNames |-> <<regionName>>, width |-> size.width,
                height |-> size.height, options |-> options]
    /\ ret' = [NoRet EXCEPT !.threw = r.threw, !.canvas = r.canvas]
    /\ UNCHANGED <<uiVars, detectorVars, hostVars, pixelVars, frameVars, surfaceVars, settingsVars,
                   copyVars>>

CallGenerateCombinedMask(regionNames, size, options) ==
    LET r == generateCombinedMask(landmarks, regionNames, size.width,
                                  size.height, scale, options) IN
    /\ call.fn = "none"
    /\ call' = [fn |-> "generateCombinedMask", landmarks |-> landmarks,
                regionNames |-> regionNames, width |-> size.width,
                height |-> size.height, options |-> options]
    /\ ret' = [NoRet EXCEPT !.threw = r.threw, !.canvas = r.canvas]
    /\ UNCHANGED <<uiVars, detectorVars, hostVars, pixelVars, frameVars, surfaceVars, settingsVars,
                   copyVars>>

\* the caller has consumed the result; the next call starts from a clean slate
ReturnToCaller ==
    /\ call.fn # "none"
    /\ call' = NoCall
    /\ ret' = NoRet
    /\ UNCHANGED <<uiVars, detectorVars, hostVars, pixelVars, frameVars, surfaceVars, settingsVars,
                   copyVars>>

InitRegion ==
    /\ landmarks \in LandmarkSets
    /\ scale \in Scales
    /\ settings = DEFAULTS
    /\ surface = <<>>
    /\ raised = FALSE
    /\ applied = <<>>
    /\ returned = <<>>
    /\ heap = <<>>
    /\ nMutations = 0
    /\ call = NoCall
    /\ ret = NoRet
    /\ pixel = NoPixel
    /\ sample = NoSample
    /\ app = NoApp
    /\ sel = NoSelections
    /\ detector = NoDetector
    /\ callers = NoCallers
    /\ uiState = UiStateDefaults

NextRegion ==
    \/ \E regionName \in RegionNameInputs : CallGetRegionPath(regionName)
    \/ \E regionName \in RegionNameInputs, size \in SizeInputs,
          options \in OptionInputs :
            CallGenerateRegionMask(regionName, size, options)
    \/ \E regionNames \in RegionListInputs, size \in SizeInputs,
          options \in OptionInputs :
            CallGenerateCombinedMask(regionNames, size, options)
    \/ ReturnToCaller

SpecRegion == InitRegion /\ [][NextRegion]_vars


(***************************************************************************)
(* drawDebugLandmarks on a context in its default state.                   *)
(***************************************************************************)
CallDrawDebugLandmarks(debug, sparse) ==
    LET r == drawDebugLandmarks(DefaultContext, landmarks, debug, sparse) IN
    /\ call.fn = "none"
    /\ call' = [fn |-> "drawDebugLandmarks", landmarks |-> landmarks,
                debug |-> debug, sparse |-> sparse]
    /\ ret' = [threw |-> r.threw, ctx |-> r.ctx]
    /\ UNCHANGED <<uiVars, detectorVars, hostVars, pixelVars, frameVars,
                   surfaceVars, settingsVars, copyVars>>

NextDebug ==
    \/ \E debug \in BOOLEAN, sparse \in BOOLEAN :
          CallDrawDebugLandmarks(debug, sparse)
    \/ ReturnToCaller

SpecDebug == InitRegion /\ [][NextDebug]_vars

(***************************************************************************)
(* The render pass on the destination surface.                             *)
(***************************************************************************)
CanvasSize == [width |-> 640, height |-> 480]

\* frames the detector hands to the engine: no face, an empty result, a
\* truncated result, results with an absent point, full results
Frames ==
    {[landmarks |-> NullLandmarks, scale |-> 100],
     [landmarks |-> MkLandmarks(0, {}), scale |-> 100],
     [landmarks |-> MkLandmarks(3, {}), scale |-> 100],
     [landmarks |-> MkLandmarks(20, {}), scale |-> 100],
     [landmarks |-> MkLandmarks(200, {}), scale |-> 50],
     [landmarks |-> MkLandmarks(468, {4}), scale |-> 100],
     [landmarks |-> MkLandmarks(468, {}), scale |-> 100],
     [landmarks |-> MkLandmarks(FullLength, {33, 246, 362}), scale |-> 50]}

\* effect.setEnabled(enabled)
setEnabled(effectSettings, enabled) ==
    [effectSettings EXCEPT !.enabled = enabled]

SetEnabled(effect, enabled) ==
    /\ nMutations < MaxMutations
    /\ settings' = [settings EXCEPT ![effect] = setEnabled(@, enabled)]
    /\ nMutations' = nMutations + 1
    /\ UNCHANGED <<uiVars, detectorVars, hostVars, pixelVars, frameVars, surfaceVars, copyVars, callVars>>

\* effect.apply(ctx, [originalImage,] landmarks, width, height, scale),
\* called by the host directly
ApplyEffect(effect, originalImage) ==
    LET r == EffectApply(effect, surface, originalImage, landmarks,
                         CanvasSize.width, CanvasSize.height, scale) IN
    /\ Len(applied) < MaxDraws
    /\ surface' = r.surface
    /\ raised' = r.threw
    /\ applied' = Append(applied, [effect |-> effect,
                                   enabled |-> settings[effect].enabled])
    /\ UNCHANGED <<uiVars, detectorVars, hostVars, pixelVars, frameVars, settingsVars, copyVars, callVars>>

\* renderImage(): resizing the canvas clears it, then the image is drawn
DrawBase ==
    /\ surface' = <<>>
    /\ raised' = FALSE
    /\ applied' = <<>>
    /\ UNCHANGED <<uiVars, detectorVars, hostVars, pixelVars, frameVars, settingsVars, copyVars, callVars>>

\* the orders in which a host may walk through the seven effect objects
Orders ==
    {<<"contour", "highlight", "blush", "eyeshadow", "eyeliner", "lipstick",
       "skinSmoothing">>,
     <<"skinSmoothing", "contour", "highlight", "blush", "eyeshadow",
       "eyeliner", "lipstick">>,
     <<"lipstick", "eyeliner", "eyeshadow", "blush", "highlight", "contour",
       "skinSmoothing">>}

\* for (const name of order) effects[name].apply(...): an error raised by
\* one apply() ends the loop
RECURSIVE applyEach(_, _, _, _, _)
applyEach(order, i, ctx, lms, sc) ==
    IF i > Len(order)
    THEN Returned(ctx)
    ELSE LET r == EffectApply(order[i], ctx, TRUE, lms, CanvasSize.width,
                              CanvasSize.height, sc)
         IN  IF r.threw THEN r ELSE applyEach(order, i + 1, r.surface, lms, sc)

ApplyEvery(order) ==
    LET r == applyEach(order, 1, surface, landmarks, scale) IN
    /\ applied = <<>>
    /\ surface' = r.surface
    /\ raised' = r.threw
    /\ applied' = [i \in 1..Len(order) |->
                      [effect |-> order[i],
                       enabled |-> settings[order[i]].enabled]]
    /\ UNCHANGED <<uiVars, detectorVars, hostVars, pixelVars, frameVars, settingsVars, copyVars, callVars>>

Init ==
    /\ \E frame \in Frames :
          landmarks = frame.landmarks /\ scale = frame.scale
    /\ settings = DEFAULTS
    /\ surface = <<>>
    /\ raised = FALSE
    /\ applied = <<>>
    /\ returned = <<>>
    /\ heap = <<>>
    /\ nMutations = 0
    /\ call = NoCall
    /\ ret = NoRet
    /\ pixel = NoPixel
    /\ sample = NoSample
    /\ app = NoApp
    /\ sel = NoSelections
    /\ detector = NoDetector
    /\ callers = NoCallers
    /\ uiState = UiStateDefaults

Next ==
    \/ \E effect \in Effects, enabled \in BOOLEAN : SetEnabled(effect, enabled)
    \/ \E effect \in Effects, originalImage \in BOOLEAN :
          ApplyEffect(effect, originalImage)
    \/ \E order \in Orders : ApplyEvery(order)
    \/ DrawBase

Spec == Init /\ [][Next]_vars

(***************************************************************************)
(* Settings of the effect objects: update(), the setters, getSettings().   *)
(***************************************************************************)
\* Math.min(hi, value) alone: nothing holds a value up at the lower bound
Clamp_UpperBoundOnly(lo, hi, value) == IF value > hi THEN hi ELSE value

\* Math.max(lo, Math.min(hi, value))
Clamp(lo, hi, value) ==
    IF value > hi THEN hi ELSE IF value < lo THEN lo ELSE value

update_ReplacesSettings(effectSettings, newSettings) ==
    IF newSettings = EmptyObject THEN effectSettings ELSE newSettings

\* update(newSettings) { Object.assign(this.settings, newSettings) }
update(effectSettings, newSettings) == ObjectAssign(effectSettings, newSettings)

setColor(effectSettings, color) == [effectSettings EXCEPT !.color = color]

setOpacity(effectSettings, opacity) ==
    [effectSettings EXCEPT !.opacity = Clamp(0, Percent, opacity)]

setIntensity(effectSettings, intensity) ==
    [effectSettings EXCEPT !.intensity = Clamp(0, Percent, intensity)]

setBlendMode(effectSettings, mode) == [effectSettings EXCEPT !.blendMode = mode]

setThickness(effectSettings, thickness) ==
    [effectSettings EXCEPT !.thickness = Clamp(1, 10, thickness)]

setStyle(effectSettings, style) == [effectSettings EXCEPT !.style = style]

setSpread(effectSettings, spread) ==
    [effectSettings EXCEPT !.spread = Clamp(30, 2 * Percent, spread)]

setShimmer(effectSettings, shimmer) ==
    [effectSettings EXCEPT !.shimmer = shimmer]

setStrength(effectSettings, strength) ==
    [effectSettings EXCEPT !.strength = Clamp(0, Percent, strength)]

setPreserveTexture(effectSettings, value) ==
    [effectSettings EXCEPT !.preserveTexture = Clamp(0, Percent, value)]

\* the setters each effect class defines
NumericSetters ==
    [lipstick |-> {"setOpacity", "setIntensity"},
     eyeliner |-> {"setThickness", "setOpacity"},
     eyeshadow |-> {"setOpacity", "setSpread", "setIntensity"},
     blush |-> {"setOpacity"},
     contour |-> {"setOpacity"},
     highlight |-> {"setOpacity"},
     skinSmoothing |-> {"setStrength", "setPreserveTexture"}]

TextSetters ==
    [lipstick |-> {"setColor", "setBlendMode"},
     eyeliner |-> {"setColor", "setStyle"},
     eyeshadow |-> {"setColor"},
     blush |-> {"setColor"},
     contour |-> {"setColor"},
     highlight |-> {"setColor"},
     skinSmoothing |-> {}]

NumericSetter(setter, effectSettings, value) ==
    CASE setter = "setOpacity" -> setOpacity(effectSettings, value)
      [] setter = "setIntensity" -> setIntensity(effectSettings, value)
      [] setter = "setThickness" -> setThickness(effectSettings, value)
      [] setter = "setSpread" -> setSpread(effectSettings, value)
      [] setter = "setStrength" -> setStrength(effectSettings, value)
      [] setter = "setPreserveTexture" ->
            setPreserveTexture(effectSettings, value)

TextSetter(setter, effectSettings, value) ==
    CASE setter = "setColor" -> setColor(effectSettings, value)
      [] setter = "setBlendMode" -> setBlendMode(effectSettings, value)
      [] setter = "setStyle" -> setStyle(effectSettings, value)

\* arguments the host passes: in range, below and above the range
NumericInputs(setter) ==
    CASE setter = "setThickness" -> {0, 5, 12}
      [] setter = "setSpread" -> {10, 150, 250}
      [] OTHER -> {-20, 40, 150}

TextInputs(setter) ==
    CASE setter = "setColor" -> {"#112233"}
      [] setter = "setBlendMode" -> {"overlay"}
      [] setter = "setStyle" -> {"winged"}

\* partial settings passed to update(): nothing, one field, several fields,
\* a number outside the documented range
UpdateInputs(effect) ==
    {EmptyObject,
     [enabled |-> ~DEFAULTS[effect].enabled],
     IF effect = "skinSmoothing"
     THEN [strength |-> 150]
     ELSE [opacity |-> 150],
     IF effect = "skinSmoothing"
     THEN [enabled |-> TRUE, strength |-> 20, blurRadius |-> 4]
     ELSE [enabled |-> TRUE, opacity |-> 30, color |-> "#112233"]}

Update_AlsoApplies(effect, newSettings) ==
    /\ nMutations < MaxMutations
    /\ settings' = [settings EXCEPT ![effect] = update(@, newSettings)]
    /\ nMutations' = nMutations + 1
    /\ surface' = EffectApply(effect, surface, TRUE, landmarks,
                              CanvasSize.width, CanvasSize.height,
                              scale).surface
    /\ UNCHANGED <<uiVars, detectorVars, hostVars, pixelVars, frameVars, raised, applied, copyVars, callVars>>

Update(effect, newSettings) ==
    /\ nMutations < MaxMutations
    /\ settings' = [settings EXCEPT ![effect] = update(@, newSettings)]
    /\ nMutations' = nMutations + 1
    /\ UNCHANGED <<uiVars, detectorVars, hostVars, pixelVars, frameVars, surfaceVars, copyVars, callVars>>

CallNumericSetter(effect, setter, value) ==
    /\ nMutations < MaxMutations
    /\ setter \in NumericSetters[effect]
    /\ settings' = [settings EXCEPT
                       ![effect] = NumericSetter(setter, @, value)]
    /\ nMutations' = nMutations + 1
    /\ UNCHANGED <<uiVars, detectorVars, hostVars, pixelVars, frameVars, surfaceVars, copyVars, callVars>>

CallTextSetter(effect, setter, value) ==
    /\ nMutations < MaxMutations
    /\ setter \in TextSetters[effect]
    /\ settings' = [settings EXCEPT ![effect] = TextSetter(setter, @, value)]
    /\ nMutations' = nMutations + 1
    /\ UNCHANGED <<uiVars, detectorVars, hostVars, pixelVars, frameVars, surfaceVars, copyVars, callVars>>

SetShimmer(shimmer) ==
    /\ nMutations < MaxMutations
    /\ settings' = [settings EXCEPT !["eyeshadow"] = setShimmer(@, shimmer)]
    /\ nMutations' = nMutations + 1
    /\ UNCHANGED <<uiVars, detectorVars, hostVars, pixelVars, frameVars, surfaceVars, copyVars, callVars>>

InitSettings ==
    /\ landmarks = MkLandmarks(468, {})
    /\ scale = 100
    /\ settings = DEFAULTS
    /\ surface = <<>>
    /\ raised = FALSE
    /\ applied = <<>>
    /\ returned = <<>>
    /\ heap = <<>>
    /\ nMutations = 0
    /\ call = NoCall
    /\ ret = NoRet
    /\ pixel = NoPixel
    /\ sample = NoSample
    /\ app = NoApp
    /\ sel = NoSelections
    /\ detector = NoDetector
    /\ callers = NoCallers
    /\ uiState = UiStateDefaults

NextSettings ==
    \/ \E effect \in Effects :
          \E newSettings \in UpdateInputs(effect) : Update(effect, newSettings)
    \/ \E effect \in Effects :
          \E setter \in NumericSetters[effect] :
             \E value \in NumericInputs(setter) :
                CallNumericSetter(effect, setter, value)
    \/ \E effect \in Effects :
          \E setter \in TextSetters[effect] :
             \E value \in TextInputs(setter) :
                CallTextSetter(effect, setter, value)
    \/ \E shimmer \in BOOLEAN : SetShimmer(shimmer)
    \/ \E effect \in {"eyeliner", "contour"}, enabled \in BOOLEAN :
          SetEnabled(effect, enabled)

SpecSettings == InitSettings /\ [][NextSettings]_vars

\* one call of every kind of setter, with an argument inside its range
SetterCalls ==
    {[effect |-> "lipstick", setter |-> "setOpacity", value |-> 40],
     [effect |-> "eyeshadow", setter |-> "setIntensity", value |-> 40],
     [effect |-> "eyeliner", setter |-> "setThickness", value |-> 5],
     [effect |-> "eyeshadow", setter |-> "setSpread", value |-> 150],
     [effect |-> "skinSmoothing", setter |-> "setStrength", value |-> 40],
     [effect |-> "skinSmoothing", setter |-> "setPreserveTexture",
      value |-> 40]}

\* settings mutations between the host's render passes
NextDirty ==
    \/ \E effect \in Effects : Update(effect, [enabled |-> FALSE])
    \/ \E c \in SetterCalls : CallNumericSetter(c.effect, c.setter, c.value)
    \/ \E effect \in {"lipstick", "eyeliner"} :
          \E setter \in TextSetters[effect] :
             \E value \in TextInputs(setter) :
                CallTextSetter(effect, setter, value)
    \/ SetShimmer(TRUE)
    \/ \E effect \in {"contour", "highlight"} : SetEnabled(effect, TRUE)
    \/ \E order \in Orders : ApplyEvery(order)
    \/ DrawBase

SpecDirty == InitSettings /\ [][NextDirty]_vars

\* blend modes a caller may store: names the compositor documents, a name
\* the canvas knows but the compositor does not document, unknown names
BlendModeInputs == {"screen", "darken", "glossy"}

\* blendMode changes (update() on any effect, setBlendMode() on lipstick)
\* between apply() calls
NextBlend ==
    \/ \E effect \in {"lipstick", "blush", "eyeshadow"} :
          \E mode \in BlendModeInputs :
             Update(effect, [blendMode |-> mode])
    \/ \E mode \in BlendModeInputs :
          CallTextSetter("lipstick", "setBlendMode", mode)
    \/ \E effect \in {"blush", "eyeshadow"} : SetEnabled(effect, TRUE)
    \/ \E effect \in {"lipstick", "blush", "eyeshadow"} :
          ApplyEffect(effect, TRUE)
    \/ \E order \in Orders : ApplyEvery(order)
    \/ DrawBase

SpecBlend == InitSettings /\ [][NextBlend]_vars

(***************************************************************************)
(* One effect pass seen at one pixel of the destination.                   *)
(***************************************************************************)
\* renderImage() at the pixel
DrawBasePixel(base) ==
    /\ pixel' = base
    /\ sample' = NoSample
    /\ UNCHANGED <<uiVars, detectorVars, hostVars, frameVars, surfaceVars, settingsVars, copyVars,
                   callVars>>

SmoothPixel(smoothed, coverage, effectSettings) ==
    /\ sample.count < MaxPixelOps
    /\ pixel' = applySkinSmoothingAt(pixel, smoothed, coverage, TRUE,
                                     landmarks, effectSettings)
    /\ sample' = [NoSample EXCEPT
                     !.fn = "applySkinSmoothing",
                     !.before = pixel,
                     !.coverage = coverage,
                     !.smoothed = smoothed,
                     !.data = BlendedData(pixel, smoothed, coverage,
                                          effectSettings),
                     !.config = effectSettings,
                     !.count = sample.count + 1]
    /\ UNCHANGED <<uiVars, detectorVars, hostVars, frameVars, surfaceVars, settingsVars, copyVars,
                   callVars>>

ColorPixel(coverage, color, opacity, blendMode) ==
    /\ sample.count < MaxPixelOps
    /\ pixel' = applyColorWithMask(pixel, coverage, color, opacity, blendMode)
    /\ sample' = [NoSample EXCEPT !.fn = "applyColorWithMask",
                                  !.before = pixel,
                                  !.coverage = coverage,
                                  !.color = color,
                                  !.opacity = opacity,
                                  !.blendMode = blendMode,
                                  !.count = sample.count + 1]
    /\ UNCHANGED <<uiVars, detectorVars, hostVars, frameVars, surfaceVars, settingsVars, copyVars,
                   callVars>>

NextPixel ==
    \/ \E base \in PixelInputs : DrawBasePixel(base)
    \/ \E smoothed \in SmoothedInputs, coverage \in CoverageInputs,
          effectSettings \in SkinSmoothingInputs :
             SmoothPixel(smoothed, coverage, effectSettings)
    \/ \E coverage \in CoverageInputs, color \in {"#CC3366", "#FFFFFF"},
          opacity \in {0, 50, Percent}, blendMode \in PixelBlendModes :
             ColorPixel(coverage, color, opacity, blendMode)

SpecPixel == InitSettings /\ [][NextPixel]_vars

(***************************************************************************)
(* Image selections of the host.                                           *)
(***************************************************************************)
\* the change event of the file input: handleImageSelect starts and is
\* suspended in  await loadImage(file)
SelectImage(k) ==
    /\ sel[k] = "idle"
    /\ \A j \in Selections : j < k => sel[j] # "idle"
    /\ sel' = [sel EXCEPT ![k] = "loading"]
    /\ UNCHANGED app
    /\ UNCHANGED <<frameVars, surfaceVars, settingsVars, copyVars, callVars,
                   pixelVars, detectorVars, uiVars>>

\* img.onload: the handler resumes, stores and renders the image and calls
\* detectFace(); with the detector ready detect() completes without any
\* further event, otherwise the handler is suspended in detector.init()
ImageLoaded(k, result) ==
    /\ sel[k] = "loading"
    /\ LET rendered == renderImage([app EXCEPT !.currentImage = k]) IN
       IF app.detector = "ready"
       THEN /\ app' = detectFace(rendered, k, result)
            /\ sel' = [sel EXCEPT ![k] = "done"]
       ELSE /\ app' = rendered
            /\ sel' = [sel EXCEPT ![k] = "awaitInit"]
    /\ UNCHANGED <<frameVars, surfaceVars, settingsVars, copyVars, callVars,
                   pixelVars, detectorVars, uiVars>>

\* reader.onerror / img.onerror: the catch block of handleImageSelect
ImageLoadFailed(k) ==
    /\ sel[k] = "loading"
    /\ app' = showError(app)
    /\ sel' = [sel EXCEPT ![k] = "failed"]
    /\ UNCHANGED <<frameVars, surfaceVars, settingsVars, copyVars, callVars,
                   pixelVars, detectorVars, uiVars>>

\* detector.init(), started by app.init(), completes
DetectorInitialized ==
    /\ app.detector = "initializing"
    /\ app' = [app EXCEPT !.detector = "ready"]
    /\ UNCHANGED sel
    /\ UNCHANGED <<frameVars, surfaceVars, settingsVars, copyVars, callVars,
                   pixelVars, detectorVars, uiVars>>

\* a handler waiting in detector.init() finds the detector initialized:
\* detect() runs on the image the handler passed (its own), and detectFace()
\* finishes
DetectResumed(k, result) ==
    /\ sel[k] = "awaitInit"
    /\ app.detector = "ready"
    /\ app' = detectFace(app, k, result)
    /\ sel' = [sel EXCEPT ![k] = "done"]
    /\ UNCHANGED <<frameVars, surfaceVars, settingsVars, copyVars, callVars,
                   pixelVars, detectorVars, uiVars>>

\* the window's resize event
HandleResize ==
    /\ app' = handleResize(app)
    /\ UNCHANGED sel
    /\ UNCHANGED <<frameVars, surfaceVars, settingsVars, copyVars, callVars,
                   pixelVars, detectorVars, uiVars>>

NextHost ==
    \/ \E k \in Selections : SelectImage(k)
    \/ \E k \in Selections, result \in DetectResults : ImageLoaded(k, result)
    \/ \E k \in Selections : ImageLoadFailed(k)
    \/ DetectorInitialized
    \/ \E k \in Selections, result \in DetectResults :
          DetectResumed(k, result)
    \/ HandleResize

SpecHost == InitSettings /\ [][NextHost]_vars

(***************************************************************************)
(* drawEyelinerLine on one lid: the points of the lid path, the face       *)
(* centre and the configuration are the inputs.                            *)
(***************************************************************************)
LidPaths ==
    {<<>>,
     <<Point(1, 4), Point(2, 3)>>,
     <<Point(1, 4), Point(2, 3), Point(3, 4)>>,
     <<Point(7, 4), Point(8, 3), Point(9, 3), Point(10, 4)>>,
     <<Point(4, 2), Point(5, 1), Point(6, 2)>>,
     <<Point(6, 5), Point(7, 3), Point(8, 2), Point(9, 3), Point(10, 5)>>}

LidInputs == LidPaths \cup {ReversePoints(points) : points \in LidPaths}

FaceCenterInputs == {Point(5, 6), Point(2, 6), Point(8, 5)}

EyelinerStyleInputs == {"classic", "thin", "thick", "winged", "smoky"}

EyelinerThicknessInputs == {1, 2, 10}

CallDrawEyelinerLine(points, faceCenter, style, thickness) ==
    LET config == [DEFAULT_EYELINER EXCEPT !.style = style,
                                           !.thickness = thickness] IN
    /\ call.fn = "none"
    /\ call' = [fn |-> "drawEyelinerLine", points |-> points,
                faceCenter |-> faceCenter, config |-> config]
    /\ ret' = [NoRet EXCEPT !.path = EyelinerPath(points, faceCenter, config)]
    /\ UNCHANGED <<uiVars, detectorVars, hostVars, pixelVars, frameVars, surfaceVars, settingsVars,
                   copyVars>>

NextEyeliner ==
    \/ \E points \in LidInputs, faceCenter \in FaceCenterInputs,
          style \in EyelinerStyleInputs,
          thickness \in EyelinerThicknessInputs :
            CallDrawEyelinerLine(points, faceCenter, style, thickness)
    \/ ReturnToCaller

SpecEyeliner == InitSettings /\ [][NextEyeliner]_vars

(***************************************************************************)
(* Calls of init() and detect() on the detector, and dispose().            *)
(***************************************************************************)
\* the call starts and runs up to its first await, or to its end
StartCall(c, kind) ==
    /\ callers[c].pc = "idle"
    /\ kind = "appInit" <=> c = 1
    /\ \A b \in Callers : b < c => callers[b].pc # "idle"
    /\ IF kind = "detect" /\ detector.isInitialized
       THEN /\ callers' = [callers EXCEPT
                              ![c] = [kind |-> kind,
                                      pc |-> AfterInit(detector, kind)]]
            /\ UNCHANGED detector
       ELSE IF InitEntry(detector) = "return"
       THEN /\ callers' = [callers EXCEPT
                              ![c] = [kind |-> kind, pc |-> "returned"]]
            /\ detector' = [detector EXCEPT
                               !.status = StatusAfter(detector, kind, FALSE)]
       ELSE IF InitEntry(detector) = "wait"
       THEN /\ callers' = [callers EXCEPT
                              ![c] = [kind |-> kind, pc |-> "polling"]]
            /\ UNCHANGED detector
       ELSE /\ callers' = [callers EXCEPT
                              ![c] = [kind |-> kind, pc |-> "loadingModule"]]
            /\ detector' = [detector EXCEPT !.isInitializing = TRUE]
    /\ UNCHANGED <<frameVars, surfaceVars, settingsVars, copyVars, callVars,
                   pixelVars, hostVars, uiVars>>

\* the 50 ms timer of a waiting caller fires with isInitializing reset: the
\* loop ends and init() returns
PollEnds(c) ==
    /\ callers[c].pc = "polling"
    /\ ~detector.isInitializing
    /\ callers' = [callers EXCEPT
                      ![c].pc = AfterInit(detector, callers[c].kind)]
    /\ detector' = [detector EXCEPT
                       !.status = StatusAfter(detector, callers[c].kind,
                                              FALSE)]
    /\ UNCHANGED <<frameVars, surfaceVars, settingsVars, copyVars, callVars,
                   pixelVars, hostVars, uiVars>>

\* loadVisionModule() and FilesetResolver.forVisionTasks() have completed
ModuleLoaded(c, ok) ==
    /\ callers[c].pc = "loadingModule"
    /\ IF ok
       THEN /\ callers' = [callers EXCEPT ![c].pc = "creating"]
            /\ UNCHANGED detector
       ELSE /\ callers' = [callers EXCEPT ![c].pc = "threw"]
            /\ detector' =
                  [InitFailed(detector) EXCEPT
                      !.status = StatusAfter(detector, callers[c].kind, TRUE)]
    /\ UNCHANGED <<frameVars, surfaceVars, settingsVars, copyVars, callVars,
                   pixelVars, hostVars, uiVars>>

\* FaceLandmarker.createFromOptions() has completed
LandmarkerCreated(c, ok) ==
    /\ callers[c].pc = "creating"
    /\ IF ok
       THEN LET d == InitSucceeded(detector) IN
            /\ callers' = [callers EXCEPT
                              ![c].pc = AfterInit(d, callers[c].kind)]
            /\ detector' =
                  [d EXCEPT !.status = StatusAfter(d, callers[c].kind, FALSE)]
       ELSE /\ callers' = [callers EXCEPT ![c].pc = "threw"]
            /\ detector' =
                  [InitFailed(detector) EXCEPT
                      !.status = StatusAfter(detector, callers[c].kind, TRUE)]
    /\ UNCHANGED <<frameVars, surfaceVars, settingsVars, copyVars, callVars,
                   pixelVars, hostVars, uiVars>>

Dispose ==
    /\ detector' = dispose(detector)
    /\ UNCHANGED callers
    /\ UNCHANGED <<frameVars, surfaceVars, settingsVars, copyVars, callVars,
                   pixelVars, hostVars, uiVars>>

NextDetector ==
    \/ \E c \in Callers, kind \in CallKinds : StartCall(c, kind)
    \/ \E c \in Callers : PollEnds(c)
    \/ \E c \in Callers, ok \in BOOLEAN : ModuleLoaded(c, ok)
    \/ \E c \in Callers, ok \in BOOLEAN : LandmarkerCreated(c, ok)
    \/ Dispose

SpecDetector == InitSettings /\ [][NextDetector]_vars

\* the loads a call depends on terminate and the timers fire
DetectorFairness ==
    \A c \in Callers :
       /\ WF_vars(PollEnds(c))
       /\ WF_vars(\E ok \in BOOLEAN : ModuleLoaded(c, ok))
       /\ WF_vars(\E ok \in BOOLEAN : LandmarkerCreated(c, ok))

SpecDetectorLive == SpecDetector /\ DetectorFairness

(***************************************************************************)
(* getSettings() and the objects it hands out.  A reference is either the  *)
(* effect's own settings object or an object of the heap.                  *)
(***************************************************************************)
getSettings_ReturnsOwnObject(effect, hp) ==
    [ref |-> [kind |-> "own", effect |-> effect, at |-> 0], heap |-> hp]

\* getSettings() { return { ...this.settings } }
getSettings(effect, hp) ==
    [ref |-> [kind |-> "copy", effect |-> effect, at |-> Len(hp) + 1],
     heap |-> Append(hp, settings[effect])]

\* the object a reference points to
Deref(ref) ==
    IF ref.kind = "own" THEN settings[ref.effect] ELSE heap[ref.at]

DerefNext(ref) ==
    IF ref.kind = "own" THEN settings'[ref.effect] ELSE heap'[ref.at]

GetSettings(effect) ==
    LET r == getSettings(effect, heap) IN
    /\ Len(returned) < MaxCopies
    /\ returned' = Append(returned, r.ref)
    /\ heap' = r.heap
    /\ UNCHANGED <<uiVars, detectorVars, hostVars, pixelVars, frameVars, surfaceVars, settingsVars, callVars>>

\* the caller assigns to a field of the k-th object it was given
ModifyReturned(k, field, value) ==
    /\ k \in DOMAIN returned
    /\ Deref(returned[k])[field] # value
    /\ IF returned[k].kind = "own"
       THEN /\ settings' = [settings EXCEPT
                               ![returned[k].effect][field] = value]
            /\ heap' = heap
       ELSE /\ heap' = [heap EXCEPT ![returned[k].at][field] = value]
            /\ settings' = settings
    /\ UNCHANGED <<uiVars, detectorVars, hostVars, pixelVars, frameVars, surfaceVars, nMutations, returned,
                   callVars>>

NextCopy ==
    \/ \E effect \in {"lipstick", "eyeshadow"} : GetSettings(effect)
    \/ \E k \in 1..MaxCopies : ModifyReturned(k, "opacity", 99)
    \/ \E k \in 1..MaxCopies : ModifyReturned(k, "color", "#000000")
    \/ \E effect \in {"lipstick", "eyeshadow"} :
          \E newSettings \in UpdateInputs(effect) : Update(effect, newSettings)
    \/ \E value \in NumericInputs("setOpacity") :
          CallNumericSetter("lipstick", "setOpacity", value)

SpecCopy == InitSettings /\ [][NextCopy]_vars

(***************************************************************************)
(* Presets and the host application they are applied to.                   *)
(***************************************************************************)
\* preset applications explored from the defaults
MaxPresets == 3

\* PRESETS[name].settings
PRESETS ==
    [natural |->
        [lipstick |-> [enabled |-> TRUE, color |-> "#C4837A", opacity |-> 35,
                       intensity |-> 80],
         eyeliner |-> [enabled |-> TRUE, style |-> "thin", thickness |-> 1,
                       opacity |-> 60],
         eyeshadow |-> [enabled |-> FALSE],
         blush |-> [enabled |-> TRUE, color |-> "#E8A0A0", opacity |-> 15],
         contour |-> [enabled |-> FALSE],
         highlight |-> [enabled |-> TRUE, opacity |-> 10],
         skinSmoothing |-> [enabled |-> TRUE, strength |-> 20]],
     glam |->
        [lipstick |-> [enabled |-> TRUE, color |-> "#CC2233", opacity |-> 70,
                       intensity |-> 100],
         eyeliner |-> [enabled |-> TRUE, style |-> "winged", thickness |-> 3,
                       opacity |-> 90],
         eyeshadow |-> [enabled |-> TRUE, color |-> "#6B4B6B", opacity |-> 50],
         blush |-> [enabled |-> TRUE, color |-> "#E8887A", opacity |-> 30],
         contour |-> [enabled |-> TRUE, opacity |-> 25],
         highlight |-> [enabled |-> TRUE, opacity |-> 25],
         skinSmoothing |-> [enabled |-> TRUE, strength |-> 40]],
     bridal |->
        [lipstick |-> [enabled |-> TRUE, color |-> "#C87A8A", opacity |-> 50,
                       intensity |-> 90],
         eyeliner |-> [enabled |-> TRUE, style |-> "classic", thickness |-> 2,
                       opacity |-> 75],
         eyeshadow |-> [enabled |-> TRUE, color |-> "#A08090", opacity |-> 35],
         blush |-> [enabled |-> TRUE, color |-> "#FFAA88", opacity |-> 20],
         contour |-> [enabled |-> TRUE, opacity |-> 15],
         highlight |-> [enabled |-> TRUE, opacity |-> 30],
         skinSmoothing |-> [enabled |-> TRUE, strength |-> 35]],
     party |->
        [lipstick |-> [enabled |-> TRUE, color |-> "#E84420", opacity |-> 75,
                       intensity |-> 100],
         eyeliner |-> [enabled |-> TRUE, style |-> "winged", thickness |-> 4,
                       opacity |-> 100],
         eyeshadow |-> [enabled |-> TRUE, color |-> "#4B3B6B", opacity |-> 60],
         blush |-> [enabled |-> TRUE, color |-> "#C87A8A", opacity |-> 35],
         contour |-> [enabled |-> TRUE, opacity |-> 30],
         highlight |-> [enabled |-> TRUE, opacity |-> 35],
         skinSmoothing |-> [enabled |-> TRUE, strength |-> 50]],
     none |->
        [lipstick |-> [enabled |-> FALSE],
         eyeliner |-> [enabled |-> FALSE],
         eyeshadow |-> [enabled |-> FALSE],
         blush |-> [enabled |-> FALSE],
         contour |-> [enabled |-> FALSE],
         highlight |-> [enabled |-> FALSE],
         skinSmoothing |-> [enabled |-> FALSE]]]

\* Object.entries(preset.settings): the effects in the order they are written
PresetEntries ==
    <<"lipstick", "eyeliner", "eyeshadow", "blush", "contour", "highlight",
      "skinSmoothing">>

\* app.setMakeup(effectName, partial): merges partial into the settings of
\* that effect through its update()
setMakeup(allSettings, effectName, partial) ==
    [allSettings EXCEPT ![effectName] = update(@, partial)]

\* the forEach of applyPresetToApp from entry i on
RECURSIVE ApplyEntries(_, _, _)
ApplyEntries(allSettings, presetSettings, i) ==
    IF i > Len(PresetEntries)
    THEN allSettings
    ELSE ApplyEntries(setMakeup(allSettings, PresetEntries[i],
                                presetSettings[PresetEntries[i]]),
                      presetSettings, i + 1)

applyPresetToApp_SkipsFirstEntry(allSettings, presetName) ==
    IF presetName \in DOMAIN PRESETS
    THEN [threw |-> FALSE, result |-> TRUE,
          settings |-> ApplyEntries(allSettings, PRESETS[presetName], 2)]
    ELSE [threw |-> presetName \in ObjectPrototypeKeys, result |-> FALSE,
          settings |-> allSettings]

applyPresetToApp(allSettings, presetName) ==
    IF presetName \in DOMAIN PRESETS
    THEN [threw |-> FALSE, result |-> TRUE,
          settings |-> ApplyEntries(allSettings, PRESETS[presetName], 1)]
    ELSE IF presetName \in ObjectPrototypeKeys
    THEN \* the inherited value is truthy and has no settings:
         \* Object.entries(undefined)
         [threw |-> TRUE, result |-> FALSE, settings |-> allSettings]
    ELSE [threw |-> FALSE, result |-> FALSE, settings |-> allSettings]

PresetNameInputs == DOMAIN PRESETS \cup {"smoky", "toString"}

ApplyPresetToApp(presetName) ==
    LET r == applyPresetToApp(settings, presetName) IN
    /\ nMutations < MaxPresets
    /\ settings' = r.settings
    /\ raised' = r.threw
    /\ nMutations' = nMutations + 1
    /\ UNCHANGED <<uiVars, detectorVars, hostVars, pixelVars, frameVars, surface, applied, copyVars, callVars>>

\* fixed back-to-front order, skin smoothing as a pre-pass
PipelineOrder ==
    <<"skinSmoothing", "contour", "highlight", "blush", "eyeshadow",
      "eyeliner", "lipstick">>

\* applyAll(surface, landmarks, scale): every effect in the fixed order, each
\* draw call fault-isolated
RECURSIVE applyAll(_, _, _, _)
applyAll(ctx, i, lms, sc) ==
    IF i > Len(PipelineOrder)
    THEN ctx
    ELSE applyAll(EffectApply(PipelineOrder[i], ctx, TRUE, lms,
                              CanvasSize.width, CanvasSize.height,
                              sc).surface,
                  i + 1, lms, sc)

\* the host's full redraw: clear, base image, applyAll
Redraw ==
    /\ surface' = applyAll(<<>>, 1, landmarks, scale)
    /\ raised' = FALSE
    /\ applied' = [i \in 1..Len(PipelineOrder) |->
                      [effect |-> PipelineOrder[i],
                       enabled |-> settings[PipelineOrder[i]].enabled]]
    /\ UNCHANGED <<uiVars, detectorVars, hostVars, pixelVars, frameVars, settingsVars, copyVars, callVars>>

NextPreset ==
    \/ \E presetName \in PresetNameInputs : ApplyPresetToApp(presetName)
    \/ Redraw

SpecPreset == InitSettings /\ [][NextPreset]_vars

(***************************************************************************)
(* The tabbed UI: the category switches and the preset selector.           *)
(***************************************************************************)
\* the effects each category toggle passes to app.setMakeup, in order
CategoryEffects ==
    [lips |-> <<"lipstick">>,
     eyes |-> <<"eyeliner", "eyeshadow">>,
     face |-> <<"blush", "contour", "highlight", "skinSmoothing">>]

CategorySwitch ==
    [lips |-> "lipsEnabled", eyes |-> "eyesEnabled", face |-> "faceEnabled"]

\* appInstance.setMakeup(effect, { enabled }) for the effects from i on
RECURSIVE SetCategory(_, _, _, _)
SetCategory(allSettings, effects, i, enabled) ==
    IF i > Len(effects)
    THEN allSettings
    ELSE SetCategory(setMakeup(allSettings, effects[i],
                               [enabled |-> enabled]),
                     effects, i + 1, enabled)

\* applyPreset would switch every category on, for 'none' as well
SwitchesAfterPreset_AlwaysOn(ui, presetName) ==
    [ui EXCEPT !.lipsEnabled = TRUE, !.eyesEnabled = TRUE,
               !.faceEnabled = TRUE]

\* applyPreset after a successful applyPresetToApp: all switches off for
\* 'none', all on for any other preset
SwitchesAfterPreset(ui, presetName) ==
    IF presetName = "none"
    THEN [ui EXCEPT !.lipsEnabled = FALSE, !.eyesEnabled = FALSE,
                    !.faceEnabled = FALSE]
    ELSE [ui EXCEPT !.lipsEnabled = TRUE, !.eyesEnabled = TRUE,
                    !.faceEnabled = TRUE]

\* the 'change' event of a category toggle
ToggleCategory(category, enabled) ==
    /\ nMutations < MaxPresets
    /\ uiState' = [uiState EXCEPT ![CategorySwitch[category]] = enabled]
    /\ settings' = SetCategory(settings, CategoryEffects[category], 1, enabled)
    /\ nMutations' = nMutations + 1
    /\ UNCHANGED <<frameVars, surfaceVars, copyVars, callVars, pixelVars,
                   hostVars, detectorVars>>

\* the 'change' event of the preset selector: applyPreset(presetName)
SelectPreset(presetName) ==
    LET r == applyPresetToApp(settings, presetName) IN
    /\ nMutations < MaxPresets
    /\ settings' = r.settings
    /\ raised' = r.threw
    /\ uiState' = IF r.result THEN SwitchesAfterPreset(uiState, presetName)
                              ELSE uiState
    /\ nMutations' = nMutations + 1
    /\ UNCHANGED <<frameVars, surface, applied, copyVars, callVars, pixelVars,
                   hostVars, detectorVars>>

NextTabs ==
    \/ \E category \in DOMAIN CategoryEffects, enabled \in BOOLEAN :
          ToggleCategory(category, enabled)
    \/ \E presetName \in PresetNameInputs : SelectPreset(presetName)

SpecTabs == InitSettings /\ [][NextTabs]_vars

(***************************************************************************)
(* Properties of the render pass.                                          *)
(***************************************************************************)
AppliedEnabled(effect) ==
    \E i \in DOMAIN applied : applied[i].effect = effect /\ applied[i].enabled

\* C1: an effect whose settings have enabled = false draws nothing when it
\* is applied, whatever the landmark set and the scale: the surface holds
\* drawing operations only of effects that were applied while enabled, and
\* when every effect applied since the base image was disabled the surface
\* is the base image.
C1_DisabledEffectDrawsNothing ==
    /\ \A effect \in Effects :
          ~AppliedEnabled(effect)
             => \A k \in DOMAIN surface : surface[k].effect # effect
    /\ (\A effect \in Effects : ~AppliedEnabled(effect)) => surface = <<>>

\* all seven effects, disabled, applied on a full landmark set
C1_Witness ==
    /\ landmarks.length >= 468
    /\ \A effect \in Effects :
          /\ ~settings[effect].enabled
          /\ \E i \in DOMAIN applied :
                applied[i].effect = effect /\ ~applied[i].enabled
    /\ surface = <<>>

\* C3: on a non-empty landmark set, applying an enabled effect never
\* raises an error to the caller.
C3_EnabledApplyNeverRaises ==
    (~landmarks.isNull /\ landmarks.length > 0 /\ applied # <<>>) => ~raised

\* the eyeliner, enabled, applied on a landmark set without point 4
C3_EyelinerRaises ==
    /\ ~landmarks.isNull
    /\ landmarks.length > 0
    /\ ~At(landmarks, 4).ok
    /\ Len(applied) = 1
    /\ applied[1] = [effect |-> "eyeliner", enabled |-> TRUE]
    /\ raised

(***************************************************************************)
(* Properties of the settings objects.                                     *)
(***************************************************************************)
InRange(effectSettings, field, lo, hi) ==
    field \in DOMAIN effectSettings
       => (effectSettings[field] >= lo /\ effectSettings[field] <= hi)

\* C4: after any sequence of settings mutations the numeric settings of
\* every effect are within their documented bounds: opacity and intensity
\* in [0, 1], eyeliner thickness in [1, 10], eyeshadow spread in [0.3, 2].
C4_NumericSettingsWithinBounds ==
    /\ \A effect \in Effects :
          /\ InRange(settings[effect], "opacity", 0, Percent)
          /\ InRange(settings[effect], "intensity", 0, Percent)
    /\ InRange(settings["eyeliner"], "thickness", 1, 10)
    /\ InRange(settings["eyeshadow"], "spread", 30, 2 * Percent)

\* one update() stores an opacity of 1.5 as given
C4_UpdateStoresOutOfRange ==
    /\ nMutations = 1
    /\ settings["lipstick"].opacity = 150

\* C5: update(partial) on an effect sets exactly the fields of partial to
\* the given values and leaves every other field of that effect, and the
\* settings of every other effect, as they were; an empty partial changes
\* nothing.
C5_UpdateMergesExactlyThePartial ==
    [][\A effect \in Effects :
          \A newSettings \in UpdateInputs(effect) :
             Update(effect, newSettings)
                => /\ DOMAIN settings'[effect] =
                         DOMAIN settings[effect] \cup DOMAIN newSettings
                   /\ \A f \in DOMAIN newSettings :
                         settings'[effect][f] = newSettings[f]
                   /\ \A f \in DOMAIN settings[effect] \ DOMAIN newSettings :
                         settings'[effect][f] = settings[effect][f]
                   /\ \A other \in Effects \ {effect} :
                         settings'[other] = settings[other]
                   /\ (newSettings = EmptyObject => settings' = settings)]_vars

\* a three-field partial merged into the blush settings after another
\* effect was changed: the other blush fields and the other effect keep
\* their values
C5_Witness ==
    /\ nMutations = 2
    /\ settings["blush"] =
          [DEFAULT_BLUSH EXCEPT !.enabled = TRUE, !.opacity = 30,
                                !.color = "#112233"]
    /\ settings["eyeliner"] = [DEFAULT_EYELINER EXCEPT !.thickness = 10]
    /\ \A effect \in Effects \ {"blush", "eyeliner"} :
          settings[effect] = DEFAULTS[effect]

\* C6: getSettings() returns a copy: writing to the returned object never
\* changes the settings of the effect (what a later getSettings() or
\* apply() reads), and a later update() or setter never changes an object
\* returned earlier.
C6_GetSettingsReturnsDefensiveCopy ==
    [][/\ heap' # heap /\ returned' = returned => settings' = settings
       /\ settings' # settings
            => \A k \in DOMAIN returned :
                  DerefNext(returned[k]) = Deref(returned[k])
       /\ \A k \in DOMAIN returned :
             \A field \in {"opacity", "color"} :
                ModifyReturned(k, field, IF field = "opacity"
                                         THEN 99 ELSE "#000000")
                   => settings' = settings]_vars

\* a copy taken before an update() still holds the defaults, a copy the
\* caller wrote to differs from the settings that a later copy shows
C6_Witness ==
    /\ Len(returned) >= 2
    /\ returned[1].effect = "lipstick"
    /\ returned[2].effect = "lipstick"
    /\ Deref(returned[1]) = [DEFAULT_LIPSTICK EXCEPT !.opacity = 99]
    /\ settings["lipstick"].opacity = 30
    /\ Deref(returned[2]) = settings["lipstick"]

\* C7: a settings mutation (update or a setter) never draws: it leaves the
\* destination surface as it is, so an effect that was drawn stays on the
\* surface after it is disabled; only a render step (apply, or the host's
\* base image draw) changes the surface.
C7_SettingsMutationNeverDraws ==
    [][/\ nMutations' # nMutations => surface' = surface
       /\ settings' # settings => surface' = surface
       /\ surface' # surface => (settings' = settings /\ applied' # applied)
      ]_vars

\* lipstick was drawn, then disabled by update({enabled: false}): it is
\* still on the surface
C7_Witness ==
    /\ nMutations >= 1
    /\ ~settings["lipstick"].enabled
    /\ \E k \in DOMAIN surface : surface[k].effect = "lipstick"

AllDisabled == \A effect \in Effects : ~settings[effect].enabled

\* C2: after any sequence of preset applications that ends with the preset
\* 'none' every one of the seven effects has enabled = false, and a full
\* redraw made while they are all disabled leaves the base image only.
C2_PresetNoneDisablesEveryEffect ==
    [][/\ ApplyPresetToApp("none")
            => \A effect \in Effects : ~settings'[effect].enabled
       /\ (AllDisabled /\ Redraw) => surface' = <<>>]_vars

\* 'party' then 'none' then a full redraw: the party colours are still in
\* the settings, every effect is disabled and has been applied, the surface
\* is the base image
C2_Witness ==
    /\ nMutations >= 2
    /\ settings["lipstick"].color = "#E84420"
    /\ settings["eyeliner"].style = "winged"
    /\ AllDisabled
    /\ Len(applied) = Len(PipelineOrder)
    /\ \A i \in DOMAIN applied : ~applied[i].enabled
    /\ surface = <<>>

(***************************************************************************)
(* Properties of the Landmark Region Catalog and the Region Mask Builder.  *)
(***************************************************************************)
\* C8: getRegionPath called with a region name that is not in the region
\* table returns an empty path and raises nothing, for every landmark set
\* including a null or an empty one.
C8_UnknownRegionGivesEmptyPath ==
    (call.fn = "getRegionPath" /\ call.regionNames[1] \notin DOMAIN REGIONS)
        => (~ret.threw /\ ret.path = <<>>)

\* the table's own names answer as the claim says; the names that break it
\* are the ones every JS object inherits
C8_InheritedNameRaises ==
    /\ call.fn = "getRegionPath"
    /\ call.regionNames[1] \notin DOMAIN REGIONS
    /\ call.regionNames[1] \in ObjectPrototypeKeys
    /\ landmarks.length > 0
    /\ ret.threw

\* positions of the region definition whose landmark is present
ValidPositions(lms, indices) ==
    {k \in 1..Len(indices) :
        ~lms.isNull /\ indices[k] < lms.length /\ indices[k] \notin lms.holes}

RankIn(valid, k) == Cardinality({j \in valid : j <= k})

\* C9: for a region of the table, getRegionPath returns exactly the points
\* of the definition's valid indices (index < length and landmark present),
\* in the order of the definition, each mapped to (x * scale, y * scale);
\* invalid indices leave no gap, the path is never longer than the
\* definition, and the landmark set passed in is the same afterwards.
C9_KnownRegionPathIsFilteredScaledDefinition ==
    (call.fn = "getRegionPath" /\ call.regionNames[1] \in DOMAIN REGIONS)
        => LET indices == REGIONS[call.regionNames[1]]
               valid == ValidPositions(landmarks, indices)
           IN  /\ ~ret.threw
               /\ Len(ret.path) = Cardinality(valid)
               /\ Len(ret.path) <= Len(indices)
               /\ \A k \in valid :
                     ret.path[RankIn(valid, k)] =
                        [x |-> LmX(indices[k]) * scale,
                         y |-> LmY(indices[k]) * scale]
               /\ landmarks = call.landmarks

\* a region some of whose indices are beyond the array and some of whose
\* in-range landmarks are absent, with points before and after the gap
C9_Witness ==
    /\ call.fn = "getRegionPath"
    /\ call.regionNames[1] \in DOMAIN REGIONS
    /\ LET indices == REGIONS[call.regionNames[1]] IN
        /\ \E k \in 1..Len(indices) : indices[k] >= landmarks.length
        /\ \E k \in 2..Len(indices) :
              /\ indices[k] \in landmarks.holes
              /\ indices[k] < landmarks.length
              /\ \E j \in 1..(k - 1) : j \in ValidPositions(landmarks, indices)
        /\ Len(ret.path) >= 3

PathLength(regionName) == Len(getRegionPath(landmarks, regionName, scale).path)

Resolves(regionName) == ~getRegionPath(landmarks, regionName, scale).threw

\* C10: when a region's resolved path has fewer than 3 points,
\* generateRegionMask returns an all-zero mask of the requested size and
\* raises nothing; in generateCombinedMask such a region contributes
\* nothing while the other regions of the list are still rasterized, in
\* the order of the list.
C10_DegenerateRegionGivesEmptyMask ==
    /\ (/\ call.fn = "generateRegionMask"
        /\ Resolves(call.regionNames[1])
        /\ PathLength(call.regionNames[1]) < 3)
        => /\ ~ret.threw
           /\ AllZero(ret.canvas)
           /\ ret.canvas.width = call.width
           /\ ret.canvas.height = call.height
    /\ (/\ call.fn = "generateCombinedMask"
        /\ \A i \in 1..Len(call.regionNames) : Resolves(call.regionNames[i]))
        => /\ ~ret.threw
           /\ ret.canvas.width = call.width
           /\ ret.canvas.height = call.height
           /\ FilledRegions(ret.canvas) =
                 SelectSeq(call.regionNames,
                           LAMBDA name : PathLength(name) >= 3)

\* a single region with one or two points, and a list in which one region
\* has one or two points and another one is rasterized
C10_Witness ==
    \/ /\ call.fn = "generateRegionMask"
       /\ Resolves(call.regionNames[1])
       /\ PathLength(call.regionNames[1]) \in 1..2
       /\ AllZero(ret.canvas)
       /\ ret.canvas.width = 640
    \/ /\ call.fn = "generateCombinedMask"
       /\ \E i, j \in 1..Len(call.regionNames) :
             /\ Resolves(call.regionNames[i])
             /\ PathLength(call.regionNames[i]) \in 1..2
             /\ PathLength(call.regionNames[j]) >= 3
       /\ Len(FilledRegions(ret.canvas)) >= 1

\* the largest landmark index a region definition references
MaxIndex(indices) ==
    CHOOSE m \in {indices[k] : k \in 1..Len(indices)} :
        \A k \in 1..Len(indices) : indices[k] <= m

\* C11: for every region of the region table, a LandmarkSet shorter than
\* the largest index the region references gives an all-zero mask for that
\* region, and no exception.
C11_ShortLandmarkSetGivesEmptyMask ==
    (/\ call.fn = "generateRegionMask"
     /\ call.regionNames[1] \in DOMAIN REGIONS
     /\ ~call.landmarks.isNull
     /\ call.landmarks.length < MaxIndex(REGIONS[call.regionNames[1]]))
        => /\ ~ret.threw
           /\ AllZero(ret.canvas)

\* a LandmarkSet that is too short for the region but still holds three or
\* more of its points: the points that remain are rasterized as a polygon
C11_TruncatedRegionIsFilled ==
    /\ call.fn = "generateRegionMask"
    /\ call.regionNames[1] \in DOMAIN REGIONS
    /\ ~call.landmarks.isNull
    /\ call.landmarks.length < MaxIndex(REGIONS[call.regionNames[1]])
    /\ ~ret.threw
    /\ ~AllZero(ret.canvas)
    /\ ret.canvas.ops[1].n < Len(REGIONS[call.regionNames[1]])

\* the hard-edged rasterization: one polygon fill per listed region whose
\* path has three or more points, in the order of the list, and nothing else
PlainRasterization(regionNames) ==
    LET drawn == SelectSeq(regionNames, LAMBDA name : PathLength(name) >= 3)
    IN  [k \in 1..Len(drawn) |->
            FillOp(drawn[k], getRegionPath(landmarks, drawn[k], scale).path)]

ExplicitZeroFeather(options) ==
    /\ "featherRadius" \in DOMAIN options
    /\ options["featherRadius"] = 0

\* C12: with featherRadius = 0 passed explicitly, generateRegionMask and
\* generateCombinedMask run no blur pass and return exactly the hard-edged
\* polygon rasterization; the 0 is not replaced by the default radius 3.
C12_ZeroFeatherGivesUnblurredMask ==
    (/\ call.fn \in {"generateRegionMask", "generateCombinedMask"}
     /\ ExplicitZeroFeather(call.options)
     /\ ~ret.threw)
        => /\ FeatherRadiusOf(call.options) = 0
           /\ \A i \in 1..Len(ret.canvas.ops) : ret.canvas.ops[i].op # "blur"
           /\ ret.canvas.ops = PlainRasterization(call.regionNames)

\* either function called with featherRadius 0 on regions that are drawn
C12_Witness ==
    /\ call.fn \in {"generateRegionMask", "generateCombinedMask"}
    /\ ExplicitZeroFeather(call.options)
    /\ ~ret.threw
    /\ Len(ret.canvas.ops) >= 1
    /\ ret.canvas.ops[Len(ret.canvas.ops)].op = "fill"

\* the blend functions the compositor documents
SupportedBlendModes ==
    {"multiply", "screen", "overlay", "soft-light", "hard-light", "color"}

UnsupportedBlend(effect) ==
    /\ "blendMode" \in DOMAIN settings[effect]
    /\ settings[effect].blendMode \notin SupportedBlendModes

\* what an effect draws on a fresh surface with the current frame
DrawsAlone(effect) ==
    EffectApply(effect, <<>>, TRUE, landmarks, CanvasSize.width,
                CanvasSize.height, scale).surface

OpsOf(ctx, effect) == SelectSeq(ctx, LAMBDA o : o.effect = effect)

\* C13: applying an effect whose blendMode is not a supported blend function
\* leaves the destination surface unchanged and raises nothing, and in a
\* pass over all effects the other effects still render.
C13_UnknownBlendModeIsNoOp ==
    [][/\ (/\ Len(applied') = Len(applied) + 1
           /\ UnsupportedBlend(applied'[Len(applied')].effect))
              => /\ surface' = surface
                 /\ ~raised'
       /\ (applied = <<>> /\ Len(applied') = Cardinality(Effects))
              => /\ ~raised'
                 /\ \A effect \in Effects :
                       IF UnsupportedBlend(effect)
                       THEN OpsOf(surface', effect) = OpsOf(surface, effect)
                       ELSE OpsOf(surface', effect) =
                               OpsOf(surface, effect) \o DrawsAlone(effect)
      ]_vars

\* lipstick was applied while its blendMode was a name the canvas does not
\* know: the colour layer was painted with the context's default operation
C13_UnknownBlendModeStillDraws ==
    /\ ~raised
    /\ \E i \in 1..Len(applied) : applied[i].effect = "lipstick"
    /\ \E i \in 1..Len(surface) :
          /\ surface[i].effect = "lipstick"
          /\ surface[i].op = "drawImage"
          /\ surface[i].blend = "source-over"
          /\ surface[i].alpha > 0

\* C14: in mask-based compositing the colour layer is cut to the mask
\* (destination-in) before it is blended onto the destination, so a
\* destination pixel whose mask value is zero is unchanged, for every
\* colour, opacity and blend mode.
C14_ZeroMaskPixelUnchanged ==
    (sample.fn = "applyColorWithMask" /\ sample.coverage = 0)
        => pixel = sample.before

\* outside the mask, with an operation that keeps the destination only
\* where the source is opaque: the pixel of the photograph is erased
C14_PixelOutsideMaskErased ==
    /\ sample.fn = "applyColorWithMask"
    /\ sample.coverage = 0
    /\ sample.blendMode \in {"copy", "destination-in"}
    /\ sample.before.a = 255
    /\ pixel = TransparentPixel

SmoothedWith(strength) ==
    /\ sample.fn = "applySkinSmoothing"
    /\ sample.config.enabled
    /\ sample.config.strength = strength

\* C15: skin smoothing with enabled = true and strength = 0 leaves every
\* channel of every pixel of the surface unchanged, for every mask
\* coverage, blurRadius and preserveTexture.
C15_ZeroStrengthLeavesSurfaceUnchanged ==
    SmoothedWith(0) => pixel = sample.before

\* a partly transparent pixel after a pass with strength 0: the unchanged
\* copy was drawn over the pixel, which became more opaque
C15_TranslucentPixelChanged ==
    /\ SmoothedWith(0)
    /\ sample.data = getImageData(sample.before)
    /\ sample.before.a \in 1..254
    /\ pixel.a > sample.before.a

AppState == <<app.currentImage, app.faceLandmarks, app.canvas>>

C17_RenderPassesNeverInterleave ==
    [][\A i, j \in Selections :
          (i # j /\ InProgress(sel[i]) /\ sel'[j] # sel[j])
              => AppState' = AppState]_vars

\* the canvas shows one selection's image under the landmark dots of another
C17_LandmarksOverOtherImage ==
    /\ app.canvas.image # 0
    /\ app.canvas.dots # 0
    /\ app.canvas.dots # app.canvas.image


(***************************************************************************)
(* C18.  generateCombinedMask rasterizes every listed region into one      *)
(* buffer first and then applies at most one blur pass to the union        *)
(* (exactly one when featherRadius > 0), whatever the number of regions;   *)
(* no region is blurred on its own before the union.                       *)
(***************************************************************************)
CombinedMaskReturned == call.fn = "generateCombinedMask" /\ ~ret.threw

BlurPositions == {i \in DOMAIN ret.canvas.ops : ret.canvas.ops[i].op = "blur"}

FillPositions == {i \in DOMAIN ret.canvas.ops : ret.canvas.ops[i].op = "fill"}

\* the listed regions that have a path of at least three points, in order
RECURSIVE Rasterizable(_, _)
Rasterizable(regionNames, i) ==
    IF i > Len(regionNames)
    THEN <<>>
    ELSE LET p == getRegionPath(call.landmarks, regionNames[i], scale) IN
         (IF ~p.threw /\ Len(p.path) >= 3 THEN <<regionNames[i]>> ELSE <<>>)
         \o Rasterizable(regionNames, i + 1)

C18_CombinedMaskFillsThenBlursOnce ==
    CombinedMaskReturned =>
        LET ops == ret.canvas.ops
            listed == Rasterizable(call.regionNames, 1)
            featherRadius == FeatherRadiusOf(call.options)
        IN  /\ Cardinality(FillPositions) = Len(listed)
            /\ \A i \in 1..Len(listed) :
                  ops[i].op = "fill" /\ ops[i].region = listed[i]
            /\ Cardinality(BlurPositions) <= 1
            /\ Cardinality(BlurPositions) = 1 <=> featherRadius > 0
            /\ \A b \in BlurPositions :
                  /\ b = Len(ops)
                  /\ ops[b].radius = featherRadius

\* several regions were filled and the union was blurred
C18_Witness ==
    /\ CombinedMaskReturned
    /\ Cardinality(FillPositions) >= 2
    /\ Cardinality(BlurPositions) = 1
    /\ Len(call.regionNames) >= 3


(***************************************************************************)
(* C19.  For each eye, eyeliner takes as outer corner the lid-path         *)
(* endpoint whose horizontal distance to the nose-tip landmark is larger,  *)
(* and strokes the lid points in order from the other (inner) endpoint to  *)
(* the outer corner; the outer corner chosen and the set of points stroked *)
(* are the same whether the lid points arrive in their defined order or in *)
(* reversed (mirrored) order.                                              *)
(***************************************************************************)
LidStroked == call.fn = "drawEyelinerLine" /\ Len(call.points) >= 3

\* the corner that a stroked path ends its lid part at
OuterCornerOf(path, n) == [x |-> path[n].x, y |-> path[n].y]

\* the points a path goes through or is pulled towards
StrokedPoints(path) ==
    {[x |-> path[i].x, y |-> path[i].y] : i \in DOMAIN path}
    \cup {[x |-> path[i].cpx, y |-> path[i].cpy] :
            i \in {j \in DOMAIN path : path[j].op = "quadraticCurveTo"}}

Farther(p, q, faceCenter) ==
    Distance(p.x, faceCenter.x) > Distance(q.x, faceCenter.x)

C19_OuterCornerIndependentOfOrder ==
    LidStroked =>
        LET points == call.points
            n == Len(points)
            path == ret.path
            mirrored == EyelinerPath(ReversePoints(points), call.faceCenter,
                                     call.config)
            outerCorner == OuterCornerOf(path, n)
            innerCorner == OuterCornerOf(path, 1)
        IN  /\ {innerCorner, outerCorner} = {points[1], points[n]}
            /\ ~Farther(innerCorner, outerCorner, call.faceCenter)
            /\ path[1].op = "moveTo"
            /\ path[n].op = "lineTo"
            /\ \A i \in 2..(n - 1) :
                  /\ path[i].op = "quadraticCurveTo"
                  /\ [x |-> path[i].cpx, y |-> path[i].cpy]
                       = IF outerCorner = points[n] THEN points[i]
                                                     ELSE points[n + 1 - i]
            /\ OuterCornerOf(mirrored, n) = outerCorner
            /\ StrokedPoints(mirrored) = StrokedPoints(path)

\* both endpoints are equally far from the nose tip: the last point given is
\* taken, so the mirrored order ends the line (and starts the wing) at the
\* other end of the lid
C19_MirroredOrderMovesOuterCorner ==
    /\ LidStroked
    /\ call.config.style = "winged"
    /\ Distance(call.points[1].x, call.faceCenter.x)
         = Distance(call.points[Len(call.points)].x, call.faceCenter.x)
    /\ call.points[1] # call.points[Len(call.points)]
    /\ OuterCornerOf(ret.path, Len(call.points)) = call.points[Len(call.points)]
    /\ OuterCornerOf(EyelinerPath(ReversePoints(call.points), call.faceCenter,
                                  call.config), Len(call.points))
         = call.points[1]


(***************************************************************************)
(* C20.  With style 'winged' and a lid path of exactly 3 points, eyeliner  *)
(* does not throw and appends exactly one straight segment starting at the *)
(* outer corner whose horizontal component points away from the face       *)
(* center, whose vertical component points up, and whose length is         *)
(* proportional to the thickness setting (4 x thickness); for every other  *)
(* style no wing segment is drawn.                                         *)
(***************************************************************************)
\* the commands of a path after the line to the outer corner
WingSegments(path, n) == SubSeq(path, n + 1, Len(path))

C20_WingedThreePointLid ==
    LidStroked =>
        LET n == Len(call.points)
            path == ret.path
            faceCenter == call.faceCenter
            outerCorner == call.points[OuterIdx(call.points, faceCenter)]
            wings == WingSegments(path, n)
            length == 4 * call.config.thickness * Percent
        IN  /\ ~ret.threw
            /\ Len(path) >= n
            /\ OuterCornerOf(path, n) = outerCorner
            /\ IF call.config.style = "winged"
               THEN /\ Len(wings) = 1
                    /\ wings[1].op = "lineTo"
                    /\ wings[1].x # outerCorner.x
                    /\ Distance(wings[1].x, faceCenter.x)
                         > Distance(outerCorner.x, faceCenter.x)
                    /\ wings[1].y < outerCorner.y
                    /\ (wings[1].x - outerCorner.x) * (wings[1].x - outerCorner.x)
                         + (wings[1].y - outerCorner.y)
                             * (wings[1].y - outerCorner.y)
                         = length * length
               ELSE wings = <<>>

\* a winged line over a lid of exactly three points
C20_Witness ==
    /\ LidStroked
    /\ Len(call.points) = 3
    /\ call.config.style = "winged"
    /\ Len(ret.path) = 4
    /\ ret.path[4].op = "lineTo"


(***************************************************************************)
(* C21.  Every effect skips the drawing step for a region whose resolved   *)
(* point set has fewer than 3 points: no fill or stroke reaches the        *)
(* surface for that region (contour, highlight, eyeshadow, eyeliner,       *)
(* lipstick and blush alike), and nothing is raised.                       *)
(***************************************************************************)
\* the drawing calls on the surface that draw the outline of a point set
ShapeOps ==
    {i \in DOMAIN surface :
        surface[i].effect \in Effects /\ surface[i].op \in {"fill", "stroke"}}

C21_ShortRegionIsSkipped == \A i \in ShapeOps : surface[i].n >= 3

\* a highlight was filled around a region of exactly two points
C21_TwoPointRegionIsDrawn ==
    \E i \in ShapeOps :
        /\ surface[i].effect = "highlight"
        /\ surface[i].n = 2
        /\ ~raised


(***************************************************************************)
(* C22.  Each dedicated setter stores its input clamped to the field's     *)
(* bounds and never throws: setOpacity, setIntensity, setStrength and      *)
(* setPreserveTexture to [0,1], setThickness to [1,10], setSpread to       *)
(* [0.3,2]; an in-range input is stored unchanged and no other settings    *)
(* field is modified.  The inputs are numbers below, inside and above the  *)
(* bounds.                                                                 *)
(***************************************************************************)
SetterField ==
    [setOpacity |-> "opacity", setIntensity |-> "intensity",
     setStrength |-> "strength", setPreserveTexture |-> "preserveTexture",
     setThickness |-> "thickness", setSpread |-> "spread"]

SetterBounds ==
    [setOpacity |-> <<0, Percent>>, setIntensity |-> <<0, Percent>>,
     setStrength |-> <<0, Percent>>, setPreserveTexture |-> <<0, Percent>>,
     setThickness |-> <<1, 10>>, setSpread |-> <<30, 2 * Percent>>]

C23_LandmarksBelongToCurrentImage ==
    /\ app.faceLandmarks \in {0, app.currentImage}
    /\ app.canvas.dots \in {0, app.canvas.image}

\* every handler has finished and the canvas shows the current image under
\* the landmarks that were detected in another image
C23_StaleLandmarksAfterDetectionThrew ==
    /\ \A k \in Selections : ~InProgress(sel[k])
    /\ app.detector = "ready"
    /\ app.currentImage # 0
    /\ app.faceLandmarks \notin {0, app.currentImage}
    /\ app.canvas.image = app.currentImage
    /\ app.canvas.dots = app.faceLandmarks


(***************************************************************************)
(* C24.  Whenever FaceMeshDetector.init() returns normally, isInitialized  *)
(* is true and faceLandmarker is non-null, also for a caller that waited   *)
(* on another caller's in-progress initialization; hence detect() never    *)
(* calls detect on a null faceLandmarker.                                  *)
(***************************************************************************)
\* init() has returned normally to a caller that has gone on
ReturnedNormally(pc) == pc \in {"returned", "detected", "nullDetect"}

C24_InitReturnsInitialized ==
    [][\A c \in Callers :
          (~Completed(callers[c].pc) /\ ReturnedNormally(callers'[c].pc))
             => /\ detector'.isInitialized
                /\ detector'.faceLandmarker # 0
                /\ callers'[c].pc # "nullDetect"]_vars

\* a detect() call waited for an initialization that failed, init() returned
\* to it and detect was called on the null faceLandmarker; nothing was ever
\* disposed of
C24_DetectOnNullLandmarker ==
    \E c \in Callers :
       /\ callers[c] = [kind |-> "detect", pc |-> "nullDetect"]
       /\ detector.created = 0
       /\ ~detector.isInitialized
       /\ \E b \in Callers \ {c} : callers[b].pc = "threw"


(***************************************************************************)
(* C25.  Under any interleaving of concurrent init() and detect() calls on *)
(* one FaceMeshDetector, at most one initialization (module load and       *)
(* FaceLandmarker creation) is in progress at a time, and once             *)
(* initialization has succeeded no further FaceLandmarker is created until *)
(* dispose() is called.                                                    *)
(***************************************************************************)
\* the callers that are running an initialization attempt of their own
Initializing ==
    {c \in Callers : callers[c].pc \in {"loadingModule", "creating"}}

C25_OneInitializationAtATime ==
    /\ [](Cardinality(Initializing) <= 1)
    /\ [][detector'.created # detector.created
             => /\ ~detector.isInitialized
                /\ detector.faceLandmarker = 0
                /\ detector'.created = detector.created + 1]_vars

\* a second FaceLandmarker exists, created after a dispose(), while another
\* caller waits and none runs an attempt
C25_Witness ==
    /\ detector.created = 2
    /\ detector.faceLandmarker = 2
    /\ detector.isInitialized
    /\ Initializing = {}
    /\ \E c \in Callers : callers[c].pc = "polling"


(***************************************************************************)
(* C27.  Every init() call eventually completes (returns or throws)        *)
(* provided the module load and landmarker creation it depends on          *)
(* terminate: isInitializing is reset to false after both a successful and *)
(* a failed initialization, so a caller polling on it never waits forever. *)
(***************************************************************************)
C27_InitEventuallyCompletes ==
    /\ \A c \in Callers :
          InInit(callers[c].pc) ~> Completed(callers[c].pc)
    /\ [][\A c \in Callers :
             (c \in Initializing /\ Completed(callers'[c].pc))
                => ~detector'.isInitializing]_vars

\* no FaceLandmarker was ever created: an attempt failed, and the init()
\* call that had been polling on it has returned
C27_Witness ==
    /\ detector.created = 0
    /\ ~detector.isInitializing
    /\ \E c \in Callers : callers[c] = [kind |-> "appInit", pc |-> "threw"]
    /\ \E c \in Callers : callers[c] = [kind |-> "init", pc |-> "returned"]


(***************************************************************************)
(* C28.  After an initialization that failed (init() threw), the detector  *)
(* is left with isInitialized=false and isInitializing=false, and the next *)
(* detect() call starts a fresh initialization attempt before detecting,   *)
(* as the app's status message 'will retry on image upload' announces; a   *)
(* failed start-up initialization does not prevent the app from finishing  *)
(* init().                                                                 *)
(***************************************************************************)
FailedAndIdle == ~detector.isInitialized /\ ~detector.isInitializing

C28_FailedInitIsRetried ==
    /\ [][\A c \in Initializing :
             callers'[c].pc = "threw"
                => /\ ~detector'.isInitialized
                   /\ ~detector'.isInitializing
                   /\ callers[c].kind = "appInit"
                         => detector'.status =
                         "Model loading failed - will retry on image upload"]_vars
    /\ [][\A c \in Callers :
             (/\ FailedAndIdle
              /\ callers[c].pc = "idle"
              /\ callers'[c].pc # "idle"
              /\ callers'[c].kind = "detect")
                => /\ callers'[c].pc = "loadingModule"
                   /\ detector'.isInitializing]_vars

\* the start-up initialization has failed, the app shows its message, and a
\* detect() call is loading the module again
C28_Witness ==
    /\ callers[1] = [kind |-> "appInit", pc |-> "threw"]
    /\ detector.status = "Model loading failed - will retry on image upload"
    /\ detector.created = 0
    /\ \E c \in Callers :
          callers[c] = [kind |-> "detect", pc |-> "loadingModule"]


(***************************************************************************)
(* C26.  After any sequence of image selections, once all pending loads    *)
(* and detections have completed, currentImage (and the image drawn on the *)
(* canvas) is the most recently selected file, whatever the order in which *)
(* the file loads finish.                                                  *)
(***************************************************************************)
Selected == {k \in Selections : sel[k] # "idle"}

Quiescent == Selected # {} /\ \A k \in Selected : ~InProgress(sel[k])

\* selections are numbered in the order they are made
MostRecent == CHOOSE k \in Selected : \A j \in Selected : j <= k

C26_LastSelectionWins ==
    (Quiescent /\ sel[MostRecent] = "done")
        => /\ app.currentImage = MostRecent
           /\ app.canvas.image \in {0, MostRecent}

\* two files were selected and both loaded; the first finished loading
\* last and is the image held and shown
C26_EarlierSelectionShown ==
    /\ Selected = {1, 2}
    /\ sel[1] = "done"
    /\ sel[2] = "done"
    /\ app.currentImage = 1
    /\ app.canvas.image = 1


(***************************************************************************)
(* C29.  In the tabbed UI, after any sequence of category-switch changes   *)
(* and preset selections, a category switch (lips, eyes, face) is off      *)
(* exactly when every effect of that category has enabled=false in the     *)
(* app, and on exactly when at least one of them is enabled.               *)
(* Precondition: the app's effects start from their module defaults and    *)
(* app.setMakeup merges the partial settings.                              *)
(***************************************************************************)
EnabledIn(category) ==
    {i \in DOMAIN CategoryEffects[category] :
        settings[CategoryEffects[category][i]].enabled}

C29_SwitchShowsCategoryState ==
    \A category \in DOMAIN CategoryEffects :
       uiState[CategorySwitch[category]] <=> EnabledIn(category) # {}

\* the eyes were switched off, the preset 'natural' was selected and the
\* face switched off: the eyes switch is on with the eyeliner alone enabled
C29_Witness ==
    /\ nMutations = 3
    /\ uiState = [lipsEnabled |-> TRUE, eyesEnabled |-> TRUE,
                  faceEnabled |-> FALSE]
    /\ settings["eyeliner"].enabled
    /\ settings["eyeliner"].style = "thin"
    /\ ~settings["eyeshadow"].enabled
    /\ ~settings["blush"].enabled
    /\ ~settings["highlight"].enabled
    /\ ~settings["skinSmoothing"].enabled


(***************************************************************************)
(* C30.  When drawDebugLandmarks returns, the drawing context's            *)
(* globalAlpha is 1 for every landmark set, including one that lacks the   *)
(* first index of a contour region (so drawContour returns early);         *)
(* drawing done afterwards is never dimmed by a leftover 0.6 alpha.        *)
(***************************************************************************)
DebugLandmarksReturned == call.fn = "drawDebugLandmarks" /\ ~ret.threw

C30_GlobalAlphaRestored ==
    DebugLandmarksReturned => ret.ctx.globalAlpha = Percent

\* a landmark array cut off before point 78, the first of LIPS_INNER: the
\* face oval was stroked and the context is left at alpha 0.6
C30_AlphaLeftDimmed ==
    /\ DebugLandmarksReturned
    /\ call.debug
    /\ call.landmarks.holes = {}
    /\ ~At(call.landmarks, LIPS_INNER[1]).ok
    /\ \E i \in DOMAIN ret.ctx.ops : ret.ctx.ops[i].op = "stroke"
    /\ ret.ctx.globalAlpha = 60

=============================================================================
